----------------------------- MODULE NotifyGate -----------------------------
(***************************************************************************)
(* The notify callback and the ways to stop it: the second half of push,   *)
(* set_notify and Conn::close of src/src/transport.rs with canSetNotify,   *)
(* canClose and the handle table of src/src/lib.rs.                        *)
(*                                                                         *)
(* Each channel has an RX thread, which runs the application's callback    *)
(* for every frame it queues.  The callback is application code: it may    *)
(* call back into the library, on this channel or on another one.  An      *)
(* application that has disarmed a callback or closed its channel frees    *)
(* the context that the callback is given; the module records when.        *)
(*                                                                         *)
(* The RX thread of channel c is the thread c.  IN_NOTIFY_CB, the flag     *)
(* that is set on a thread while it runs a callback, is true of exactly    *)
(* the threads c with rxpc[c] = "calling".  The mutex cb_active of c is    *)
(* held across steps by that thread alone, from "gated" to the end of      *)
(* "calling"; the drain in set_notify takes and releases it in one step.   *)
(***************************************************************************)
EXTENDS Naturals, FiniteSets

CONSTANTS
    Channels,    \* the open channels, and their RX threads
    Apps,        \* the application's own threads
    Contexts,    \* callback contexts the application may register
    Batch,       \* most frames one receive can bring: 1 on TCP
    CallTables   \* call tables: which <<operation, channel>> pairs t may call

NoCb    == "no callback"
Threads == Apps \cup Channels

ASSUME GateAssumption ==
    /\ Apps \cap Channels = {}
    /\ NoCb \notin Contexts
    /\ Batch \in Nat \ {0}
    /\ CallTables \subseteq
         [Threads -> SUBSET ({"set_notify", "close"} \X Channels)]

VARIABLES
    calls,       \* the call table of this application
    conns,       \* handles in the table CONNS
    running,     \* running[c]: the RX loop may go on
    joinable,    \* joinable[c]: nobody has taken the JoinHandle yet
    notify,      \* notify[c]: the registered context, or NoCb
    rxpc,        \* where the RX thread of c is
    left,        \* left[c]: frames of the current receive still to push
    ctx,         \* ctx[c]: the context the running callback was given
    api,         \* api[t]: the library call thread t is in
    used,        \* history: contexts that were ever registered
    freed,       \* history: contexts the application has freed
    owed,        \* history: owed[c]: contexts the running callback will free
    closed       \* history: channels for which a canClose has returned

tableVars == <<calls, conns, running, joinable>>
rxVars    == <<rxpc, left, ctx>>
histVars  == <<used, freed, owed, closed>>
vars      == <<calls, conns, running, joinable, notify, rxpc, left, ctx,
               api, used, freed, owed, closed>>

NoApi == [pc |-> "idle"]
Api   == {NoApi}
         \cup [pc : {"swap"}, chan : Channels, new : Contexts \cup {NoCb}]
         \cup [pc : {"drain"}, chan : Channels, old : Contexts \cup {NoCb}]
         \cup [pc : {"stop", "take", "join"}, chan : Channels]

Init ==
    /\ calls \in CallTables
    /\ conns = Channels
    /\ running = [c \in Channels |-> TRUE]
    /\ joinable = [c \in Channels |-> TRUE]
    /\ notify = [c \in Channels |-> NoCb]
    /\ rxpc = [c \in Channels |-> "loop"]
    /\ left = [c \in Channels |-> 0]
    /\ ctx = [c \in Channels |-> NoCb]
    /\ api = [t \in Threads |-> NoApi]
    /\ used = {}
    /\ freed = {}
    /\ owed = [c \in Channels |-> {}]
    /\ closed = {}

InCallback(t) == t \in Channels /\ rxpc[t] = "calling"
CbActive(c)   == rxpc[c] \in {"gated", "calling"}

-----------------------------------------------------------------------------
(* The RX thread of channel c. *)

\* while running: go to the blocking receive, or leave the loop.
RxLoop(c) ==
    /\ rxpc[c] = "loop"
    /\ rxpc' = [rxpc EXCEPT ![c] = IF running[c] THEN "reading" ELSE "exited"]
    /\ UNCHANGED <<tableVars, notify, left, ctx, api, histVars>>

\* The receive brings n frames.  running is not looked at again before they
\* are all pushed.
RxReceive(c, n) ==
    /\ rxpc[c] = "reading"
    /\ left' = [left EXCEPT ![c] = n]
    /\ rxpc' = [rxpc EXCEPT ![c] = "push"]
    /\ UNCHANGED <<tableVars, notify, ctx, api, histVars>>

\* The receive ends empty-handed once close has cleared running: TCP because
\* the socket is shut down, UDP at its 500 ms read timeout.
RxInterrupted(c) ==
    /\ rxpc[c] = "reading"
    /\ ~running[c]
    /\ rxpc' = [rxpc EXCEPT ![c] = "loop"]
    /\ UNCHANGED <<tableVars, notify, left, ctx, api, histVars>>

\* The peer closes the connection: the loop ends and clears running itself.
RxPeerGone(c) ==
    /\ rxpc[c] = "reading"
    /\ running' = [running EXCEPT ![c] = FALSE]
    /\ rxpc' = [rxpc EXCEPT ![c] = "exited"]
    /\ UNCHANGED <<calls, conns, joinable, notify, left, ctx, api, histVars>>

\* push is done with a frame: on to the next one of this receive, if any.
NextFrame(c) ==
    /\ left' = [left EXCEPT ![c] = @ - 1]
    /\ rxpc' = [rxpc EXCEPT ![c] = IF left[c] > 1 THEN "push" ELSE "loop"]

\* The first half of push (module RxRing) filters or drops the frame...
PushLost(c) ==
    /\ rxpc[c] = "push"
    /\ NextFrame(c)
    /\ UNCHANGED <<tableVars, notify, ctx, api, histVars>>

\* ... or queues it and goes on to lock cb_active.
PushGate(c) ==
    /\ rxpc[c] = "push"
    /\ rxpc' = [rxpc EXCEPT ![c] = "gated"]
    /\ UNCHANGED <<tableVars, notify, left, ctx, api, histVars>>

\* With cb_active held, read the registered callback, and call it if any.  One
\* registered without the NOTIFY_RX flag is never called, and counts as NoCb.
PushReadNotify(c) ==
    /\ rxpc[c] = "gated"
    /\ \/ /\ notify[c] # NoCb
          /\ ctx' = [ctx EXCEPT ![c] = notify[c]]
          /\ rxpc' = [rxpc EXCEPT ![c] = "calling"]
          /\ UNCHANGED left
       \/ /\ notify[c] = NoCb
          /\ NextFrame(c)
          /\ UNCHANGED ctx
    /\ UNCHANGED <<tableVars, notify, api, histVars>>

\* The callback returns; cb_active is released.  A context that the callback
\* itself has retired is freed as its last act.
CallbackReturn(c) ==
    /\ rxpc[c] = "calling"
    /\ api[c] = NoApi
    /\ NextFrame(c)
    /\ ctx' = [ctx EXCEPT ![c] = NoCb]
    /\ freed' = freed \cup owed[c]
    /\ owed' = [owed EXCEPT ![c] = {}]
    /\ UNCHANGED <<tableVars, notify, api, used, closed>>

-----------------------------------------------------------------------------
(* The library calls of thread t. *)

\* A thread that may start a call: an application thread, or an RX thread
\* that is running a callback.
MayCall(t, op, c) ==
    /\ api[t] = NoApi
    /\ <<op, c>> \in calls[t]
    /\ t \in Apps \/ InCallback(t)

\* When a call has returned, its caller frees the context x that it retired.
\* A callback does not free the context it is running with until it ends.
Retire(t, x) ==
    IF InCallback(t) /\ ctx[t] = x
    THEN /\ owed' = [owed EXCEPT ![t] = @ \cup ({x} \ {NoCb})]
         /\ UNCHANGED freed
    ELSE /\ freed' = freed \cup ({x} \ {NoCb})
         /\ UNCHANGED owed

\* canSetNotify: look the handle up.  An unknown one is an error and changes
\* nothing.  A context is registered at most once.
SetNotifyLookup(t, c, x) ==
    /\ MayCall(t, "set_notify", c)
    /\ c \in conns
    /\ x \notin used
    /\ used' = used \cup ({x} \ {NoCb})
    /\ api' = [api EXCEPT ![t] = [pc |-> "swap", chan |-> c, new |-> x]]
    /\ UNCHANGED <<tableVars, notify, rxVars, freed, owed, closed>>

\* Mutant of SetNotifySwap: no drain, as before kvasilloni-4vc.
SetNotifySwapNoDrain(t) ==
    /\ api[t].pc = "swap"
    /\ LET c == api[t].chan
       IN  /\ notify' = [notify EXCEPT ![c] = api[t].new]
           /\ api' = [api EXCEPT ![t] = NoApi]
           /\ Retire(t, notify[c])
    /\ UNCHANGED <<tableVars, rxVars, used, closed>>

\* Mutant of SetNotifySwap: a callback drains too, waiting for itself.
SetNotifySwapAlwaysDrains(t) ==
    /\ api[t].pc = "swap"
    /\ LET c == api[t].chan
       IN  /\ notify' = [notify EXCEPT ![c] = api[t].new]
           /\ api' = [api EXCEPT ![t] =
                        [pc |-> "drain", chan |-> c, old |-> notify[c]]]
    /\ UNCHANGED <<tableVars, rxVars, histVars>>

\* set_notify: store the new callback.  On a thread that runs a callback that
\* is all; on another one the drain follows.
SetNotifySwap(t) ==
    /\ api[t].pc = "swap"
    /\ LET c == api[t].chan
       IN  /\ notify' = [notify EXCEPT ![c] = api[t].new]
           /\ \/ /\ InCallback(t)
                 /\ api' = [api EXCEPT ![t] = NoApi]
                 /\ Retire(t, notify[c])
              \/ /\ ~InCallback(t)
                 /\ api' = [api EXCEPT ![t] =
                              [pc |-> "drain", chan |-> c, old |-> notify[c]]]
                 /\ UNCHANGED <<freed, owed>>
    /\ UNCHANGED <<tableVars, rxVars, used, closed>>

\* Lock and unlock cb_active: the previous callback has finished.
SetNotifyDrain(t) ==
    /\ api[t].pc = "drain"
    /\ ~CbActive(api[t].chan)
    /\ Retire(t, api[t].old)
    /\ api' = [api EXCEPT ![t] = NoApi]
    /\ UNCHANGED <<tableVars, notify, rxVars, used, closed>>

\* canClose returns CAN_OK to t: it frees the context of the channel.
CloseReturn(t, c) ==
    /\ closed' = closed \cup {c}
    /\ Retire(t, notify[c])
    /\ api' = [api EXCEPT ![t] = NoApi]

\* canClose: take the handle out of the table; an unknown one is CAN_OK too.
CloseRemove(t, c) ==
    /\ MayCall(t, "close", c)
    /\ \/ /\ c \in conns
          /\ conns' = conns \ {c}
          /\ api' = [api EXCEPT ![t] = [pc |-> "stop", chan |-> c]]
          /\ UNCHANGED <<freed, owed, closed>>
       \/ /\ c \notin conns
          /\ CloseReturn(t, c)
          /\ UNCHANGED conns
    /\ UNCHANGED <<calls, running, joinable, notify, rxVars, used>>

\* Mutant of CloseStop: the RX loop is not told to stop.
CloseStopForgotten(t) ==
    /\ api[t].pc = "stop"
    /\ api' = [api EXCEPT ![t].pc = "take"]
    /\ UNCHANGED <<tableVars, notify, rxVars, histVars>>

\* Conn::close: clear running, wake the readers, shut the socket down.
CloseStop(t) ==
    /\ api[t].pc = "stop"
    /\ running' = [running EXCEPT ![api[t].chan] = FALSE]
    /\ api' = [api EXCEPT ![t].pc = "take"]
    /\ UNCHANGED <<calls, conns, joinable, notify, rxVars, histVars>>

\* Mutant of CloseTake: the RX thread joins itself, as before kvasilloni-cqe.
CloseTakeSelfJoin(t) ==
    /\ api[t].pc = "take"
    /\ LET c == api[t].chan
       IN  /\ joinable' = [joinable EXCEPT ![c] = FALSE]
           /\ \/ /\ joinable[c]
                 /\ api' = [api EXCEPT ![t].pc = "join"]
                 /\ UNCHANGED <<freed, owed, closed>>
              \/ /\ ~joinable[c]
                 /\ CloseReturn(t, c)
    /\ UNCHANGED <<calls, conns, running, notify, rxVars, used>>

\* Mutant of CloseTake: every close detaches the RX thread.
CloseTakeDetach(t) ==
    /\ api[t].pc = "take"
    /\ joinable' = [joinable EXCEPT ![api[t].chan] = FALSE]
    /\ CloseReturn(t, api[t].chan)
    /\ UNCHANGED <<calls, conns, running, notify, rxVars, used>>

\* Take the JoinHandle; join it unless this is the RX thread itself.
CloseTake(t) ==
    /\ api[t].pc = "take"
    /\ LET c == api[t].chan
       IN  /\ joinable' = [joinable EXCEPT ![c] = FALSE]
           /\ \/ /\ joinable[c] /\ t # c
                 /\ api' = [api EXCEPT ![t].pc = "join"]
                 /\ UNCHANGED <<freed, owed, closed>>
              \/ /\ ~joinable[c] \/ t = c
                 /\ CloseReturn(t, c)
    /\ UNCHANGED <<calls, conns, running, notify, rxVars, used>>

\* join returns when the RX thread has ended.
CloseJoin(t) ==
    /\ api[t].pc = "join"
    /\ rxpc[api[t].chan] = "exited"
    /\ CloseReturn(t, api[t].chan)
    /\ UNCHANGED <<tableVars, notify, rxVars, used>>

-----------------------------------------------------------------------------
RxThread(c) ==
    \/ RxLoop(c)
    \/ \E n \in 1..Batch : RxReceive(c, n)
    \/ RxInterrupted(c) \/ RxPeerGone(c)
    \/ PushLost(c) \/ PushGate(c) \/ PushReadNotify(c) \/ CallbackReturn(c)

LibraryCall(t) ==
    \/ \E c \in Channels, x \in Contexts \cup {NoCb} : SetNotifyLookup(t, c, x)
    \/ SetNotifySwap(t) \/ SetNotifyDrain(t)
    \/ \E c \in Channels : CloseRemove(t, c)
    \/ CloseStop(t) \/ CloseTake(t) \/ CloseJoin(t)

Next == \/ \E c \in Channels : RxThread(c)
        \/ \E t \in Threads : LibraryCall(t)

\* Threads keep running, an interrupted receive ends and callbacks return.
\* A thread that waits for cb_active is not overtaken forever by the RX
\* thread, which releases it after every frame.
Fairness ==
    /\ \A c \in Channels :
         /\ WF_vars(RxLoop(c))
         /\ WF_vars(RxInterrupted(c))
         /\ WF_vars(PushLost(c) \/ PushGate(c))
         /\ WF_vars(PushReadNotify(c))
         /\ SF_vars(CallbackReturn(c))
    /\ \A t \in Threads :
         /\ WF_vars(SetNotifySwap(t))
         /\ SF_vars(SetNotifyDrain(t))
         /\ WF_vars(CloseStop(t))
         /\ WF_vars(CloseTake(t))
         /\ WF_vars(CloseJoin(t))

Spec == Init /\ [][Next]_vars
FairSpec == Spec /\ Fairness

-----------------------------------------------------------------------------
(* Properties. *)

\* Every variable has its type; a push is under way exactly while frames of
\* a receive are left, a callback has a context, and only a thread that runs
\* a callback is inside a call on an RX thread.
TypeOK ==
    /\ calls \in CallTables
    /\ conns \subseteq Channels
    /\ running \in [Channels -> BOOLEAN]
    /\ joinable \in [Channels -> BOOLEAN]
    /\ notify \in [Channels -> Contexts \cup {NoCb}]
    /\ rxpc \in [Channels -> {"loop", "reading", "push", "gated", "calling",
                              "exited"}]
    /\ left \in [Channels -> 0..Batch]
    /\ ctx \in [Channels -> Contexts \cup {NoCb}]
    /\ \A c \in Channels :
         /\ left[c] > 0 <=> rxpc[c] \in {"push", "gated", "calling"}
         /\ ctx[c] # NoCb <=> rxpc[c] = "calling"
         /\ api[c] # NoApi \/ owed[c] # {} => rxpc[c] = "calling"
    /\ api \in [Threads -> Api]
    /\ used \subseteq Contexts
    /\ freed \subseteq Contexts
    /\ owed \in [Channels -> SUBSET Contexts]
    /\ closed \subseteq Channels

\* Disarming, replacing and closing are race-free: a context that its owner
\* freed after canSetNotify or canClose returned is not in use by a callback
\* (cb_active in push and set_notify, join in close).
ContextOutlivesCallback ==
    \A c \in Channels : rxpc[c] = "calling" => ctx[c] \notin freed

\* No callback of a channel starts after a canClose of it has returned.
NoCallbackAfterClose ==
    [][\A c \in closed : rxpc'[c] = "calling" => rxpc[c] = "calling"]_vars

\* No call hangs: neither the drain of canSetNotify nor the join of canClose
\* waits forever, from an application thread or from inside a callback.
CallsReturn ==
    \A t \in Threads : (api[t] # NoApi) ~> (api[t] = NoApi)

\* A closed channel's RX thread ends, also when it was closed from its own
\* callback and is not joined.
ClosedThreadEnds ==
    \A c \in Channels : (c \notin conns) ~> (rxpc[c] = "exited")
=============================================================================
