------------------------------- MODULE RxRing -------------------------------
(***************************************************************************)
(* The receive ring of one channel: struct Shared of src/src/transport.rs  *)
(* without its notify callback (module NotifyGate).  One RX thread pushes  *)
(* the frames that come off the wire; any number of application threads    *)
(* pop, wait, flush and close.                                             *)
(*                                                                         *)
(* A step is what one thread does inside one critical section, or one      *)
(* atomic or condition-variable operation outside of it.  The mutex q is   *)
(* held across a step boundary only by a reader that has found nothing to  *)
(* read and is about to wait on the condition variable (pc "parking");     *)
(* every other critical section is one step that needs the mutex free.     *)
(*                                                                         *)
(* A frame is the number of its arrival: its id decides only whether the   *)
(* filter lets it in, and its payload decides nothing.  A u32 of id bits   *)
(* is the set of its bits that are 1, so that `a & b' is intersection.     *)
(***************************************************************************)
EXTENDS Naturals, Sequences, FiniteSets

CONSTANTS
    RING_CAP,    \* capacity of the ring (8192 in the code)
    Threads,     \* the application's threads
    CallTables,  \* possible applications: which operations each thread calls
    Timeouts,    \* the timeouts passed to a blocking call
    Bits,        \* bit positions of a CAN id
    CanIds,      \* the ids that arrive: [ext, bits] records
    Envelopes,   \* the arguments passed to canAccept
    MaxFrames    \* bound: frames that arrive off the wire

Ops == {"pop", "pop_wait", "peek_wait", "clear", "mark_closed", "set_accept"}

ASSUME RingAssumption ==
    /\ RING_CAP \in Nat \ {0}
    /\ IsFiniteSet(Threads)
    /\ CallTables \subseteq [Threads -> SUBSET Ops]
    /\ Timeouts \subseteq {"zero", "finite", "infinite"}
    /\ CanIds \subseteq [ext : BOOLEAN, bits : SUBSET Bits]
    /\ Envelopes \subseteq SUBSET Bits
    /\ MaxFrames \in Nat

VARIABLES
    q,           \* the ring, oldest frame first
    closed,      \* set by mark_closed, never cleared
    overflow,    \* sticky: a frame was dropped because the ring was full
    filters,     \* the Accept struct: code and mask per id class
    rx,          \* where the RX thread is inside push
    cur,         \* the frame it is about to enqueue (0: none)
    arrived,     \* frames decoded off the wire so far; also numbers them
    pc,          \* where each application thread is
    call,        \* the blocking call it is in: operation and timeout
    calls,       \* calls[t]: the operations thread t calls; never changes
    got,         \* history: numbers of the frames delivered, in pop order
    dropped,     \* history: numbers of the frames lost to a full ring
    raced,       \* history: those lost while a flush was between its steps
    flushed,     \* history: numbers of the frames a flush discarded
    filtered     \* history: numbers of the frames the filter kept out

rxVars   == <<rx, cur, arrived>>
histVars == <<got, dropped, raced, flushed, filtered>>
ringVars == <<q, closed, overflow, filters>>
vars     == <<q, closed, overflow, filters, rx, cur, arrived, pc, call, calls,
              got, dropped, raced, flushed, filtered>>

Frame     == 1..MaxFrames
Directive == {"code_std", "mask_std", "code_ext", "mask_ext"}
Blocked   == {"parking", "parked", "woken", "expired"}
Elems(s)  == {s[i] : i \in DOMAIN s}
NoCall    == [op |-> "none", timeout |-> "zero"]

-----------------------------------------------------------------------------
(* Acceptance filter. *)

Accept == [Directive -> SUBSET Bits]

\* A code and a mask for the class of the id; a zero mask accepts all.
Accepts(a, id) ==
    LET code == IF id.ext THEN a["code_ext"] ELSE a["code_std"]
        mask == IF id.ext THEN a["mask_ext"] ELSE a["mask_std"]
    IN  id.bits \cap mask = code \cap mask

-----------------------------------------------------------------------------
Init ==
    /\ q = <<>>
    /\ closed = FALSE
    /\ overflow = FALSE
    /\ filters = [d \in Directive |-> {}]
    /\ rx = "idle"
    /\ cur = 0
    /\ arrived = 0
    /\ pc = [t \in Threads |-> "idle"]
    /\ call = [t \in Threads |-> NoCall]
    /\ calls \in CallTables
    /\ got = <<>>
    /\ dropped = {}
    /\ raced = {}
    /\ flushed = {}
    /\ filtered = {}

\* The mutex q is held across a step boundary.
QLocked == \E t \in Threads : pc[t] = "parking"

Parked == {t \in Threads : pc[t] = "parked"}

\* A clear has emptied the ring and has yet to lower the latch.
Flushing == {t \in Threads : pc[t] = "clearing"}

-----------------------------------------------------------------------------
(* push, on the RX thread. *)

\* A decoded frame meets the filter in force now; a rejected one is gone.
PushFilter(id) ==
    /\ rx = "idle"
    /\ arrived < MaxFrames
    /\ arrived' = arrived + 1
    /\ \/ /\ Accepts(filters, id)
          /\ rx' = "enqueue"
          /\ cur' = arrived + 1
          /\ UNCHANGED filtered
       \/ /\ ~Accepts(filters, id)
          /\ filtered' = filtered \cup {arrived + 1}
          /\ UNCHANGED <<rx, cur>>
    /\ UNCHANGED <<ringVars, pc, call, calls, got, dropped, raced, flushed>>

\* The frame about to be enqueued is dropped, or goes to the end of the ring;
\* the next step of push is then `next'.
DropNewcomer ==
    /\ dropped' = dropped \cup {cur}
    /\ raced' = IF Flushing = {} THEN raced ELSE raced \cup {cur}
    /\ rx' = "idle"
    /\ UNCHANGED q

Enqueue(next) ==
    /\ q' = Append(q, cur)
    /\ rx' = next
    /\ UNCHANGED <<overflow, dropped, raced>>

\* push has the q lock and leaves everything else alone.
Pushing ==
    /\ rx = "enqueue"
    /\ ~QLocked
    /\ cur' = 0
    /\ UNCHANGED <<closed, filters, arrived, pc, call, calls, got, flushed,
                   filtered>>

\* Mutant of PushEnqueue: the capacity test is off by one.
PushEnqueueOffByOne ==
    /\ Pushing
    /\ \/ Len(q) > RING_CAP /\ overflow' = TRUE /\ DropNewcomer
       \/ Len(q) <= RING_CAP /\ Enqueue("notify")

\* Mutant of PushEnqueue: a full ring drops the newcomer without a word.
PushEnqueueSilent ==
    /\ Pushing
    /\ \/ Len(q) >= RING_CAP /\ UNCHANGED overflow /\ DropNewcomer
       \/ Len(q) < RING_CAP /\ Enqueue("notify")

\* Mutant of PushEnqueue: readers are notified only when the ring was empty.
PushEnqueueNotifyIfEmpty ==
    /\ Pushing
    /\ \/ Len(q) >= RING_CAP /\ overflow' = TRUE /\ DropNewcomer
       \/ Len(q) < RING_CAP /\ Enqueue(IF q = <<>> THEN "notify" ELSE "idle")

\* Mutant of PushEnqueue: a full ring makes room by losing its oldest frame.
PushEnqueueDropOldest ==
    /\ Pushing
    /\ q' = Append(IF Len(q) >= RING_CAP THEN Tail(q) ELSE q, cur)
    /\ overflow' = (overflow \/ Len(q) >= RING_CAP)
    /\ rx' = "notify"
    /\ UNCHANGED <<dropped, raced>>

\* Mutant of PushEnqueue: the overrun latch is not sticky.
PushEnqueueUnlatches ==
    /\ Pushing
    /\ overflow' = (Len(q) >= RING_CAP)
    /\ \/ Len(q) >= RING_CAP /\ DropNewcomer
       \/ /\ Len(q) < RING_CAP
          /\ q' = Append(q, cur)
          /\ rx' = "notify"
          /\ UNCHANGED <<dropped, raced>>

\* Under the q lock: a full ring latches the overrun and drops the newcomer.
PushEnqueue ==
    /\ Pushing
    /\ \/ Len(q) >= RING_CAP /\ overflow' = TRUE /\ DropNewcomer
       \/ Len(q) < RING_CAP /\ Enqueue("notify")

\* cv.notify_one, after the lock is released: one waiter, if there is any.
PushNotifyOne ==
    /\ rx = "notify"
    /\ rx' = "idle"
    /\ \/ /\ Parked = {}
          /\ UNCHANGED pc
       \/ \E t \in Parked : pc' = [pc EXCEPT ![t] = "woken"]
    /\ UNCHANGED <<ringVars, cur, arrived, call, calls, histVars>>

-----------------------------------------------------------------------------
(* The application's calls. *)

\* Mutant of TakeFront: the newest frame is read first.
TakeFrontNewest(op) ==
    IF op # "peek_wait" /\ q # <<>>
    THEN /\ got' = Append(got, q[Len(q)])
         /\ q' = SubSeq(q, 1, Len(q) - 1)
    ELSE UNCHANGED <<got, q>>

\* A reader that holds the q lock gets the oldest frame or, from peek_wait
\* and on an empty ring, leaves the ring alone.
TakeFront(op) ==
    IF op # "peek_wait" /\ q # <<>>
    THEN /\ got' = Append(got, Head(q))
         /\ q' = Tail(q)
    ELSE UNCHANGED <<got, q>>

\* canRead: non-blocking; on an empty ring it changes nothing.
Pop(t) ==
    /\ pc[t] = "idle"
    /\ "pop" \in calls[t]
    /\ ~QLocked
    /\ q # <<>>
    /\ TakeFront("pop")
    /\ UNCHANGED <<closed, overflow, filters, rxVars, pc, call, calls, dropped,
                   raced, flushed, filtered>>

\* The condition of wait_timeout_while in pop_wait and in peek_wait.
MustWait == q = <<>> /\ ~closed

\* canReadWait and canReadSync: take the q lock and test the condition.
ReadWait(t, op, timeout) ==
    /\ pc[t] = "idle"
    /\ op \in calls[t] \cap {"pop_wait", "peek_wait"}
    /\ ~QLocked
    /\ \/ /\ MustWait
          /\ timeout # "zero"
          /\ pc' = [pc EXCEPT ![t] = "parking"]
          /\ call' = [call EXCEPT ![t] = [op |-> op, timeout |-> timeout]]
          /\ UNCHANGED <<q, got>>
       \/ /\ ~MustWait
          /\ TakeFront(op)
          /\ UNCHANGED <<pc, call>>
    /\ UNCHANGED <<closed, overflow, filters, rxVars, calls, dropped, raced,
                   flushed, filtered>>

\* The wait itself: release the lock and join the waiters, in one step.
Park(t) ==
    /\ pc[t] = "parking"
    /\ pc' = [pc EXCEPT ![t] = "parked"]
    /\ UNCHANGED <<ringVars, rxVars, call, calls, histVars>>

\* The timeout passes.  canWAIT_INFINITE stands for 49 days: never.
Expire(t) ==
    /\ pc[t] \in {"parked", "woken"}
    /\ call[t].timeout = "finite"
    /\ pc' = [pc EXCEPT ![t] = "expired"]
    /\ UNCHANGED <<ringVars, rxVars, call, calls, histVars>>

\* A condition variable may wake a waiter nobody notified.
SpuriousWake(t) ==
    /\ pc[t] = "parked"
    /\ pc' = [pc EXCEPT ![t] = "woken"]
    /\ UNCHANGED <<ringVars, rxVars, call, calls, histVars>>

\* A waiter has the lock again: it returns if the condition has changed or
\* its time is up, and waits on otherwise.
Resume(t) ==
    /\ pc[t] \in {"woken", "expired"}
    /\ ~QLocked
    /\ \/ /\ ~MustWait \/ pc[t] = "expired"
          /\ TakeFront(call[t].op)
          /\ pc' = [pc EXCEPT ![t] = "idle"]
          /\ call' = [call EXCEPT ![t] = NoCall]
       \/ /\ MustWait
          /\ pc[t] = "woken"
          /\ pc' = [pc EXCEPT ![t] = "parking"]
          /\ UNCHANGED <<q, got, call>>
    /\ UNCHANGED <<closed, overflow, filters, rxVars, calls, dropped, raced,
                   flushed, filtered>>

\* clear (canFlushReceiveQueue, canIOCTL_FLUSH_RX_BUFFER): empty the ring
\* under the q lock...
ClearRing(t) ==
    /\ pc[t] = "idle"
    /\ "clear" \in calls[t]
    /\ ~QLocked
    /\ q' = <<>>
    /\ flushed' = flushed \cup Elems(q)
    /\ pc' = [pc EXCEPT ![t] = "clearing"]
    /\ UNCHANGED <<closed, overflow, filters, rxVars, call, calls, got,
                   dropped, raced, filtered>>

\* ... and only then, without the lock, the overrun latch.
ClearOverflow(t) ==
    /\ pc[t] = "clearing"
    /\ overflow' = FALSE
    /\ pc' = [pc EXCEPT ![t] = "idle"]
    /\ UNCHANGED <<q, closed, filters, rxVars, call, calls, histVars>>

\* Mutant of MarkClosed: the flag is set without taking the q lock.
MarkClosedUnlocked(t) ==
    /\ pc[t] = "idle"
    /\ "mark_closed" \in calls[t]
    /\ closed' = TRUE
    /\ pc' = [pc EXCEPT ![t] = "closing"]
    /\ UNCHANGED <<q, overflow, filters, rxVars, call, calls, histVars>>

\* mark_closed: set the flag under the q lock...
MarkClosed(t) ==
    /\ pc[t] = "idle"
    /\ "mark_closed" \in calls[t]
    /\ ~QLocked
    /\ closed' = TRUE
    /\ pc' = [pc EXCEPT ![t] = "closing"]
    /\ UNCHANGED <<q, overflow, filters, rxVars, call, calls, histVars>>

\* Mutant of NotifyAll: notify_one.
NotifyAllOnlyOne(t) ==
    /\ pc[t] = "closing"
    /\ IF Parked = {} THEN pc' = [pc EXCEPT ![t] = "idle"]
       ELSE \E u \in Parked : pc' = [pc EXCEPT ![t] = "idle", ![u] = "woken"]
    /\ UNCHANGED <<ringVars, rxVars, call, calls, histVars>>

\* ... then cv.notify_all.
NotifyAll(t) ==
    /\ pc[t] = "closing"
    /\ pc' = [u \in Threads |-> IF u = t THEN "idle"
                                ELSE IF pc[u] = "parked" THEN "woken"
                                ELSE pc[u]]
    /\ UNCHANGED <<ringVars, rxVars, call, calls, histVars>>

\* canAccept: one field of the filter per call.
SetAccept(t, d, envelope) ==
    /\ pc[t] = "idle"
    /\ "set_accept" \in calls[t]
    /\ filters' = [filters EXCEPT ![d] = envelope]
    /\ UNCHANGED <<q, closed, overflow, rxVars, pc, call, calls, histVars>>

-----------------------------------------------------------------------------
RxThread ==
    \/ \E id \in CanIds : PushFilter(id)
    \/ PushEnqueue
    \/ PushNotifyOne

AppThread(t) ==
    \/ Pop(t)
    \/ \E op \in {"pop_wait", "peek_wait"}, w \in Timeouts : ReadWait(t, op, w)
    \/ Park(t) \/ Expire(t) \/ SpuriousWake(t) \/ Resume(t)
    \/ ClearRing(t) \/ ClearOverflow(t)
    \/ MarkClosed(t) \/ NotifyAll(t)
    \/ \E d \in Directive, e \in Envelopes : SetAccept(t, d, e)

Next == RxThread \/ \E t \in Threads : AppThread(t)

\* A thread inside a call keeps running; nobody has to start a call, and the
\* peer does not have to send.
Fairness ==
    /\ WF_vars(PushEnqueue)
    /\ WF_vars(PushNotifyOne)
    /\ \A t \in Threads : /\ WF_vars(Park(t))
                          /\ WF_vars(Expire(t))
                          /\ WF_vars(Resume(t))
                          /\ WF_vars(ClearOverflow(t))
                          /\ WF_vars(NotifyAll(t))

Spec == Init /\ [][Next]_vars
FairSpec == Spec /\ Fairness

-----------------------------------------------------------------------------
(* Properties. *)

RingOK ==
    /\ q \in Seq(Frame) /\ Len(q) <= RING_CAP
    /\ got \in Seq(Frame)
    /\ dropped \subseteq Frame /\ raced \subseteq Frame
    /\ flushed \subseteq Frame
    /\ filtered \subseteq Frame

FlagsOK ==
    /\ closed \in BOOLEAN
    /\ overflow \in BOOLEAN

RxOK ==
    /\ filters \in Accept
    /\ rx \in {"idle", "enqueue", "notify"}
    /\ arrived \in 0..MaxFrames
    /\ cur = IF rx = "enqueue" THEN arrived ELSE 0
    /\ rx = "enqueue" => arrived >= 1

ThreadsOK ==
    /\ pc \in [Threads -> {"idle", "clearing", "closing"} \cup Blocked]
    /\ calls \in CallTables
    /\ call \in [Threads -> [op : {"none", "pop_wait", "peek_wait"},
                             timeout : {"zero", "finite", "infinite"}]]

\* Every variable has its type, the ring never exceeds RING_CAP however
\* pushes, reads, flushes and closes interleave, and the frame being pushed
\* is the last one that arrived (push, transport.rs).
TypeOK == RingOK /\ FlagsOK /\ RxOK /\ ThreadsOK

\* Frames are delivered in arrival order and none twice, whatever mixture of
\* canRead, canReadWait and flushes the threads make: what has been read is
\* older than what is queued, which is older than the frame being pushed.
Fifo ==
    /\ \A i, j \in 1..Len(q) : i < j => q[i] < q[j]
    /\ \A i, j \in 1..Len(got) : i < j => got[i] < got[j]
    /\ \A i \in 1..Len(got), j \in 1..Len(q) : got[i] < q[j]

InFlight == IF rx = "enqueue" THEN {cur} ELSE {}
Fates    == <<Elems(got), Elems(q), dropped, flushed, filtered, InFlight>>

\* No frame is lost without a reason and none is counted twice: every frame
\* that came off the wire has been read, or is queued, or was dropped by a
\* full ring, or flushed, or filtered, or is being pushed; exactly one of
\* these (push, pop, clear, transport.rs).
OneFate ==
    \A n \in 1..arrived :
        \E i \in DOMAIN Fates : /\ n \in Fates[i]
                                /\ \A j \in DOMAIN Fates : n \in Fates[j] => j = i

\* mark_closed leaves no reader behind: once it has notified, no thread is
\* waiting or about to wait, even one that tested the condition just before
\* the flag was set.
CloseWakesAll ==
    closed => \/ \E t \in Threads : pc[t] = "closing"
              \/ \A t \in Threads : pc[t] \notin {"parking", "parked"}

\* Every thread that waits for a frame takes one: nobody calls canReadSync.
EveryWaiterReads == \A t \in Threads : "peek_wait" \notin calls[t]

\* A reader waits in canReadWait beside a queued frame only while a wakeup is
\* on its way: push has still to notify, or some thread has been woken and
\* will look at the ring.  One notify_one per frame is enough for that,
\* whatever timeouts, spurious wakeups, stolen frames and flushes do, as long
\* as every woken thread takes a frame.
NoStrandedReader ==
    /\ EveryWaiterReads
    /\ \E t \in Parked : call[t].op = "pop_wait"
    /\ q # <<>>
    => rx = "notify" \/ \E t \in Threads : pc[t] \in {"woken", "expired"}

\* What the comment on overflowed promises, that a drop since the last clear
\* shows: while the ring holds a frame older than one that was dropped, so
\* that no flush has begun since the drop, the overrun latch is up.  A flush
\* that had begun before the drop breaks it.
GapReported ==
    \A n \in dropped : (\E m \in Elems(q) : m < n) => overflow

\* How far the latch can be trusted when threads read, flush and close at
\* will: a frame missing between the frames in the ring is reported unless
\* it was dropped between the two steps of some thread's clear.  Every clear
\* that lowers the latch later has discarded the frames around the gap.
GapReportedUnlessFlushing ==
    \A n \in dropped \ raced : (\E m \in Elems(q) : m < n) => overflow

\* Closing ends every blocking read, including one without a timeout.
CloseReleasesReaders ==
    \A t \in Threads : (closed /\ pc[t] \in Blocked) ~> (pc[t] = "idle")

\* Thread t does not wait forever in canReadWait while the ring holds a frame.
WaitEnds(t) ==
    (pc[t] = "parked" /\ call[t].op = "pop_wait" /\ q # <<>>)
        ~> (pc[t] # "parked" \/ q = <<>>)

\* What the comments on push promise: a queued frame wakes a blocked reader,
\* so no thread waits in canReadWait forever beside it.  A canReadSync that
\* is woken in its stead and leaves the frame breaks it.
QueuedFrameWakesReader == \A t \in Threads : WaitEnds(t)

\* No thread waits in canReadWait forever beside a queued frame, in an
\* application where every thread that waits takes what it waited for.
QueuedFrameEndsWait == EveryWaiterReads => \A t \in Threads : WaitEnds(t)

\* The ring implements the lossy queue: a frame off the wire is kept out by
\* the filter in force, queued, or dropped by a full ring that raises the
\* overrun flag in the same step; a queued frame is read in order or goes
\* with a flush, and nothing but the second step of a flush lowers the flag.
LQ == INSTANCE LossyQueue WITH
        Cap <- RING_CAP, Ids <- CanIds, Users <- Threads,
        passing <- {id \in CanIds : Accepts(filters, id)},
        last <- arrived, pending <- rx = "enqueue", buf <- q,
        overrun <- overflow, flushing <- Flushing

ImplementsLossyQueue == LQ!Spec
=============================================================================
