------------------------------ MODULE MCRxRing ------------------------------
(* Instances of RxRing for TLC. *)
EXTENDS RxRing, TLC

CONSTANTS r1, r2, c     \* two reading threads and one that controls

MCThreads == {r1, r2, c}

\* Two blocking readers, one of which only peeks, beside a thread that polls,
\* flushes and closes.
Mixed == (r1 :> {"pop_wait"}) @@ (r2 :> {"pop_wait", "peek_wait"})
                              @@ (c :> {"pop", "clear", "mark_closed"})

\* Readers that all consume what they wait for.
Readers == (r1 :> {"pop_wait"}) @@ (r2 :> {"pop_wait", "pop"})
                                @@ (c :> {"pop_wait", "mark_closed"})

\* Two threads that flush, racing each other, beside a reader.
Flushers == (r1 :> {"pop_wait"}) @@ (r2 :> {"clear"}) @@ (c :> {"clear"})

\* The acceptance filter changes while frames arrive and are read.
Filtering == (r1 :> {"pop"}) @@ (r2 :> {}) @@ (c :> {"set_accept", "clear"})

MCCallTables == {Mixed, Readers, Flushers, Filtering}

\* One thread reads, one asks whether there is something to read.
PeekTable == {(r1 :> {"pop_wait"}) @@ (r2 :> {"peek_wait"})
                                   @@ (c :> {"mark_closed"})}

\* One thread reads, two flush.
FlushTable == {(r1 :> {"pop"}) @@ (r2 :> {"clear"}) @@ (c :> {"clear"})}

\* One standard and one extended id, equal in their bits.
MCCanIds == {[ext |-> FALSE, bits |-> {0}], [ext |-> TRUE, bits |-> {0}]}
OneCanId == {[ext |-> FALSE, bits |-> {0}]}
=============================================================================
