----------------------------- MODULE LossyQueue -----------------------------
(***************************************************************************)
(* What the receive side of a channel promises its application: a bounded  *)
(* first-in first-out queue of the frames that pass a filter.  Once a      *)
(* frame has passed, it is queued, or it is dropped because the queue is   *)
(* full, and then the overrun flag goes up in the same step; there is no   *)
(* third way out.  Queued frames leave from the front, in order, or all at *)
(* once by a flush, and only the end of a flush lowers the flag.  Frames   *)
(* are numbered in the order they come off the wire.                       *)
(*                                                                         *)
(* RxRing (the Shared struct of transport.rs) is shown to implement this.  *)
(***************************************************************************)
EXTENDS Naturals, Sequences

CONSTANTS
    Cap,        \* capacity of the queue
    Ids,        \* the ids a frame may bear
    Users       \* who may flush

VARIABLES
    passing,    \* the ids the filter lets through
    last,       \* number of the last frame that arrived
    pending,    \* that frame has passed the filter, its fate is open
    buf,        \* numbers of the frames waiting to be read
    got,        \* numbers of the frames handed to the application, in order
    overrun,    \* a frame was dropped and no flush has ended since
    flushing    \* the users whose flush has emptied the queue but not ended

vars == <<passing, last, pending, buf, got, overrun, flushing>>

Init ==
    /\ passing = Ids
    /\ last = 0
    /\ pending = FALSE
    /\ buf = <<>>
    /\ got = <<>>
    /\ overrun = FALSE
    /\ flushing = {}

\* The next frame comes off the wire; the filter lets it through or not.
Arrive(id) ==
    /\ ~pending
    /\ last' = last + 1
    /\ pending' = (id \in passing)
    /\ UNCHANGED <<passing, buf, got, overrun, flushing>>

\* A frame that passed is queued...
Put ==
    /\ pending
    /\ Len(buf) < Cap
    /\ pending' = FALSE
    /\ buf' = Append(buf, last)
    /\ UNCHANGED <<passing, last, got, overrun, flushing>>

\* ... or dropped, which only a full queue may do, and never silently.
Drop ==
    /\ pending
    /\ Len(buf) = Cap
    /\ pending' = FALSE
    /\ overrun' = TRUE
    /\ UNCHANGED <<passing, last, buf, got, flushing>>

\* The application reads the oldest frame.
Take ==
    /\ buf # <<>>
    /\ got' = Append(got, Head(buf))
    /\ buf' = Tail(buf)
    /\ UNCHANGED <<passing, last, pending, overrun, flushing>>

\* A user flushes: first the frames go...
Flush(u) ==
    /\ u \notin flushing
    /\ buf' = <<>>
    /\ flushing' = flushing \cup {u}
    /\ UNCHANGED <<passing, last, pending, got, overrun>>

\* ... then, in a step of its own, the overrun flag.
EndFlush(u) ==
    /\ u \in flushing
    /\ overrun' = FALSE
    /\ flushing' = flushing \ {u}
    /\ UNCHANGED <<passing, last, pending, buf, got>>

SetFilter ==
    /\ passing' \in SUBSET Ids
    /\ UNCHANGED <<last, pending, buf, got, overrun, flushing>>

Next ==
    \/ \E id \in Ids : Arrive(id)
    \/ Put \/ Drop \/ Take \/ SetFilter
    \/ \E u \in Users : Flush(u) \/ EndFlush(u)

Spec == Init /\ [][Next]_vars
=============================================================================
