-------------------------- MODULE NotifyGateProofs --------------------------
(***************************************************************************)
(* Theorems about NotifyGate for every set of channels, threads and        *)
(* contexts, any number of frames per receive, and every application that  *)
(* keeps to the rules of Disciplined below.                                *)
(***************************************************************************)
EXTENDS NotifyGate, TLAPS

-----------------------------------------------------------------------------
(* What is assumed of the application. *)

\* - A callback registers and disarms only on its own channel.  On another one
\*   set_notify does not drain (run gate_disarm_other), so that its return says
\*   nothing about the context it has replaced.
\* - One thread closes a channel.  A second canClose of a handle that is just
\*   being closed returns at once, without waiting for the RX thread.
\* - A callback closes its own channel only where a receive brings one frame,
\*   as on TCP: the rest of a datagram is still delivered (run gate_datagram).
Disciplined ==
    \A k \in CallTables :
        /\ \A c, d \in Channels : <<"set_notify", d>> \in k[c] => c = d
        /\ \A t, u \in Threads, c \in Channels :
             <<"close", c>> \in k[t] /\ <<"close", c>> \in k[u] => t = u
        /\ Batch = 1 \/ \A c \in Channels : <<"close", c>> \notin k[c]

-----------------------------------------------------------------------------
(* The inductive invariant. *)

\* The RX thread of c will not start another callback.
Finished(c) ==
    /\ ~running[c]
    /\ rxpc[c] \in {"loop", "calling", "exited"}
    /\ left[c] <= 1

CloserPcs == {"stop", "take", "join"}

\* A thread is inside a call that it may make, and a callback never drains.
Entitled ==
    \A t \in Threads :
        /\ api[t].pc = "swap" => <<"set_notify", api[t].chan>> \in calls[t]
        /\ api[t].pc = "drain" => t \in Apps
        /\ api[t].pc \in CloserPcs => <<"close", api[t].chan>> \in calls[t]

\* A closing thread has removed the handle, and finds the JoinHandle when it
\* comes to take it.  A channel whose handle is gone has a closing thread, or
\* its RX thread has ended, or has closed it itself and is about to end.
Closing ==
    /\ \A t \in Threads : api[t].pc \in CloserPcs =>
         /\ api[t].chan \notin conns
         /\ api[t].pc # "join" => joinable[api[t].chan]
         /\ api[t].pc # "stop" => ~running[api[t].chan]
    /\ \A c \in conns : joinable[c]
    /\ \A c \in Channels \ conns :
         \/ rxpc[c] = "exited"
         \/ Finished(c) /\ <<"close", c>> \in calls[c]
         \/ \E t \in Threads : api[t].pc \in CloserPcs /\ api[t].chan = c
    /\ \A c \in Channels : rxpc[c] = "exited" => ~running[c]
    /\ \A c \in closed : Finished(c)

\* A context belongs to one channel: it is registered there or in use there.
Single ==
    \A c, d \in Channels :
        /\ notify[c] # NoCb => c = d \/ notify[c] \notin {notify[d], ctx[d]}
        /\ ctx[c] # NoCb => c = d \/ ctx[c] # ctx[d]

\* A context that is going to be registered is new everywhere.
New ==
    \A t \in Threads : api[t].pc = "swap" /\ api[t].new # NoCb =>
        /\ api[t].new \in used \ freed
        /\ \A c \in Channels : api[t].new \notin {notify[c], ctx[c]}
        /\ \A u \in Threads :
             /\ u # t /\ api[u].pc = "swap" => api[u].new # api[t].new
             /\ api[u].pc = "drain" => api[u].old # api[t].new

\* A context that set_notify has replaced is registered nowhere, and in use on
\* its own channel at most.
Replaced ==
    \A t \in Threads : api[t].pc = "drain" /\ api[t].old # NoCb =>
        /\ api[t].old \in used
        /\ \A c \in Channels :
             /\ notify[c] # api[t].old
             /\ ctx[c] = api[t].old => c = api[t].chan

\* A context that is freed, or that the running callback will free, was once
\* registered; where it still is, no callback will start again.
Released ==
    /\ freed \subseteq used
    /\ \A c \in Channels :
         /\ {notify[c], ctx[c]} \subseteq used \cup {NoCb}
         /\ owed[c] \subseteq {ctx[c]}
         /\ notify[c] \in freed \cup owed[c] => Finished(c)

-----------------------------------------------------------------------------
(* Type correctness. *)

LEMMA Bounds ==
    /\ Batch \in Nat /\ Batch > 0
    /\ NoCb \notin Contexts
    /\ \A c \in Channels : c \notin Apps
    /\ Apps \subseteq Threads /\ Channels \subseteq Threads
  BY GateAssumption DEF GateAssumption, Threads

\* What a call record holds, by where the call is.
LEMMA ApiForms ==
    ASSUME NEW r \in Api
    PROVE  /\ r.pc \in {"idle", "swap", "drain"} \cup CloserPcs
           /\ r.pc = "idle" <=> r = NoApi
           /\ r.pc = "swap" => r.chan \in Channels /\ r.new \in Contexts \cup {NoCb}
           /\ r.pc = "drain" => r.chan \in Channels /\ r.old \in Contexts \cup {NoCb}
           /\ r.pc \in CloserPcs => r.chan \in Channels
  BY DEF Api, NoApi, CloserPcs

\* The next step of a closing thread is on the same channel.
LEMMA CloserMoves ==
    ASSUME NEW r \in Api, r.pc \in CloserPcs, NEW p \in CloserPcs
    PROVE  /\ [r EXCEPT !.pc = p] \in Api
           /\ [r EXCEPT !.pc = p].pc = p
           /\ [r EXCEPT !.pc = p].chan = r.chan
  BY DEF Api, NoApi, CloserPcs

LEMMA ApiMoves ==
    ASSUME TypeOK, NEW t \in Threads, NEW r \in Api,
           api' = [api EXCEPT ![t] = r]
    PROVE  /\ api' \in [Threads -> Api]
           /\ api'[t] = r
           /\ \A u \in Threads : u # t => api'[u] = api[u]
  BY DEF TypeOK

LEMMA RetireType ==
    ASSUME TypeOK, NEW t \in Threads, NEW x \in Contexts \cup {NoCb},
           Retire(t, x)
    PROVE  /\ freed' \subseteq Contexts
           /\ owed' \in [Channels -> SUBSET Contexts]
           /\ \A c \in Channels :
                owed'[c] # {} => owed[c] # {} \/ rxpc[c] = "calling"
<1>1. CASE InCallback(t) /\ ctx[t] = x
  <2>1. t \in Channels /\ rxpc[t] = "calling" /\ freed' = freed
    BY <1>1 DEF InCallback, Retire
  <2>2. owed' = [owed EXCEPT ![t] = owed[t] \cup ({x} \ {NoCb})]
    BY <1>1 DEF Retire
  <2>3. QED
    BY <2>1, <2>2 DEF TypeOK
<1>2. CASE ~(InCallback(t) /\ ctx[t] = x)
  <2>1. freed' = freed \cup ({x} \ {NoCb}) /\ owed' = owed
    BY <1>2 DEF Retire
  <2>2. QED
    BY <2>1 DEF TypeOK
<1>3. QED
  BY <1>1, <1>2

\* A call of thread t leaves the RX threads alone, but for owed: the part of
\* TypeOK that is about them.
LEMMA CallType ==
    ASSUME TypeOK, NEW t \in Threads, UNCHANGED rxVars,
           \A c \in Channels : owed'[c] # {} => owed[c] # {} \/ rxpc[c] = "calling",
           \A u \in Threads : u # t => api'[u] = api[u],
           \/ t \in Apps \/ InCallback(t)
           \/ api[t] # NoApi
    PROVE  \A c \in Channels :
             /\ left'[c] > 0 <=> rxpc'[c] \in {"push", "gated", "calling"}
             /\ ctx'[c] # NoCb <=> rxpc'[c] = "calling"
             /\ api'[c] # NoApi \/ owed'[c] # {} => rxpc'[c] = "calling"
<1>1. ASSUME NEW c \in Channels, api'[c] # NoApi, c # t
      PROVE  rxpc[c] = "calling"
  BY <1>1, Bounds DEF TypeOK
<1>2. ASSUME NEW c \in Channels, c = t PROVE rxpc[c] = "calling"
  BY <1>2, Bounds DEF TypeOK, InCallback
<1>3. QED
  BY <1>1, <1>2 DEF TypeOK, rxVars

LEMMA GateTypeInit == Init => TypeOK
  BY Bounds DEF Init, TypeOK, Api

\* push is done with a frame.
LEMMA NextFrameType ==
    ASSUME TypeOK, NEW c \in Channels, NextFrame(c),
           rxpc[c] \in {"push", "gated", "calling"}
    PROVE  /\ left' \in [Channels -> 0..Batch]
           /\ rxpc' \in [Channels -> {"loop", "reading", "push", "gated",
                                      "calling", "exited"}]
           /\ left'[c] > 0 <=> rxpc'[c] \in {"push", "gated", "calling"}
           /\ rxpc'[c] \in {"push", "loop"}
           /\ left[c] <= 1 => rxpc'[c] = "loop" /\ left'[c] <= 1
           /\ \A d \in Channels : d # c => left'[d] = left[d] /\ rxpc'[d] = rxpc[d]
<1>1. left[c] \in 0..Batch /\ left[c] > 0
  BY DEF TypeOK
<1>2. left' = [left EXCEPT ![c] = left[c] - 1] /\ left[c] - 1 \in 0..Batch
  BY <1>1, Bounds DEF NextFrame
<1>3. rxpc' = [rxpc EXCEPT ![c] = IF left[c] > 1 THEN "push" ELSE "loop"]
  BY DEF NextFrame
<1>4. left' \in [Channels -> 0..Batch] /\ left'[c] = left[c] - 1
  BY <1>2 DEF TypeOK
<1>5. rxpc'[c] = IF left[c] > 1 THEN "push" ELSE "loop"
  BY <1>3 DEF TypeOK
<1>6. QED
  BY <1>1, <1>2, <1>3, <1>4, <1>5, Bounds DEF TypeOK

\* What the RX thread of c may do: to its own channel only, and without
\* touching the handles, the registrations or the calls under way.
RxEffect(c) ==
    /\ UNCHANGED <<calls, conns, joinable, notify, api, used, closed>>
    /\ \A d \in Channels : d # c =>
         /\ running'[d] = running[d] /\ rxpc'[d] = rxpc[d]
         /\ left'[d] = left[d] /\ ctx'[d] = ctx[d] /\ owed'[d] = owed[d]
    /\ running'[c] => running[c]
    /\ Finished(c) => Finished(c)'
    /\ rxpc'[c] = "exited" => ~running'[c]
    /\ rxpc[c] # "exited"
    /\ \/ ctx'[c] = ctx[c] /\ rxpc'[c] # "calling"
       \/ ctx'[c] = NoCb /\ rxpc'[c] # "calling"
       \/ rxpc[c] = "gated" /\ ctx'[c] = notify[c]
    /\ \/ freed' = freed /\ owed' = owed
       \/ freed' = freed \cup owed[c] /\ owed'[c] = {} /\ ctx'[c] = NoCb

LEMMA RxStep ==
    ASSUME TypeOK, NEW c \in Channels, RxThread(c)
    PROVE  TypeOK' /\ RxEffect(c)
<1>0. /\ rxpc[c] \in {"loop", "reading", "push", "gated", "calling", "exited"}
      /\ left[c] \in 0..Batch /\ running[c] \in BOOLEAN
      /\ Batch \in Nat
  BY Bounds DEF TypeOK
<1>1. CASE RxLoop(c)
  <2>1. TypeOK'
    BY <1>1 DEF RxLoop, TypeOK, tableVars, histVars
  <2>2. RxEffect(c)
    BY <1>1 DEF RxLoop, RxEffect, TypeOK, Finished, tableVars, histVars
  <2>3. QED
    BY <2>1, <2>2
<1>2. ASSUME NEW n \in 1..Batch, RxReceive(c, n) PROVE TypeOK' /\ RxEffect(c)
  <2>0. n \in 0..Batch /\ n > 0
    BY <1>0
  <2>1. TypeOK'
    BY <1>2, <2>0 DEF RxReceive, TypeOK, tableVars, histVars
  <2>2. RxEffect(c)
    BY <1>2, <2>0 DEF RxReceive, RxEffect, TypeOK, Finished, tableVars, histVars
  <2>3. QED
    BY <2>1, <2>2
<1>3. CASE RxInterrupted(c) \/ RxPeerGone(c)
  <2>1. TypeOK'
    BY <1>3 DEF RxInterrupted, RxPeerGone, TypeOK, tableVars, histVars
  <2>2. RxEffect(c)
    BY <1>0, <1>3 DEF RxInterrupted, RxPeerGone, RxEffect, TypeOK, Finished,
                      tableVars, histVars
  <2>3. QED
    BY <2>1, <2>2
<1>4. CASE PushLost(c)
  <2>1. /\ rxpc[c] = "push" /\ NextFrame(c)
        /\ UNCHANGED <<calls, conns, running, joinable, notify, ctx, api, used,
                      freed, owed, closed>>
    BY <1>4 DEF PushLost, tableVars, histVars
  <2>2. TypeOK'
    BY <2>1, NextFrameType DEF TypeOK
  <2>3. RxEffect(c)
    BY <2>1, NextFrameType DEF RxEffect, Finished
  <2>4. QED
    BY <2>2, <2>3
<1>5. CASE PushGate(c)
  <2>1. TypeOK'
    BY <1>5 DEF PushGate, TypeOK, tableVars, histVars
  <2>2. RxEffect(c)
    BY <1>5 DEF PushGate, RxEffect, TypeOK, Finished, tableVars, histVars
  <2>3. QED
    BY <2>1, <2>2
<1>6. CASE PushReadNotify(c)
  <2>1. /\ rxpc[c] = "gated"
        /\ UNCHANGED <<calls, conns, running, joinable, notify, api, used,
                      freed, owed, closed>>
    BY <1>6 DEF PushReadNotify, tableVars, histVars
  <2>2. CASE notify[c] # NoCb
    <3>1. /\ ctx' = [ctx EXCEPT ![c] = notify[c]]
          /\ rxpc' = [rxpc EXCEPT ![c] = "calling"]
          /\ left' = left
      BY <1>6, <2>2 DEF PushReadNotify
    <3>2. TypeOK'
      BY <2>1, <2>2, <3>1 DEF TypeOK
    <3>3. RxEffect(c)
      BY <2>1, <3>1 DEF RxEffect, TypeOK, Finished
    <3>4. QED
      BY <3>2, <3>3
  <2>3. CASE notify[c] = NoCb
    <3>1. NextFrame(c) /\ ctx' = ctx
      BY <1>6, <2>3 DEF PushReadNotify
    <3>2. TypeOK'
      BY <2>1, <3>1, NextFrameType DEF TypeOK
    <3>3. RxEffect(c)
      BY <2>1, <3>1, NextFrameType DEF RxEffect, Finished
    <3>4. QED
      BY <3>2, <3>3
  <2>4. QED
    BY <2>2, <2>3
<1>7. CASE CallbackReturn(c)
  <2>1. /\ rxpc[c] = "calling" /\ NextFrame(c) /\ api[c] = NoApi
        /\ UNCHANGED <<calls, conns, running, joinable, notify, api, used,
                      closed>>
        /\ ctx' = [ctx EXCEPT ![c] = NoCb]
        /\ owed' = [owed EXCEPT ![c] = {}]
        /\ freed' = freed \cup owed[c]
    BY <1>7 DEF CallbackReturn, tableVars
  <2>2. /\ \A d \in Channels : d # c => ctx'[d] = ctx[d] /\ owed'[d] = owed[d]
        /\ ctx'[c] = NoCb /\ owed'[c] = {}
        /\ freed' \subseteq Contexts /\ owed' \in [Channels -> SUBSET Contexts]
    BY <2>1 DEF TypeOK
  <2>3. TypeOK'
    <3>1. ASSUME NEW d \in Channels
          PROVE  /\ left'[d] > 0 <=> rxpc'[d] \in {"push", "gated", "calling"}
                 /\ ctx'[d] # NoCb <=> rxpc'[d] = "calling"
                 /\ api'[d] # NoApi \/ owed'[d] # {} => rxpc'[d] = "calling"
      BY <2>1, <2>2, NextFrameType DEF TypeOK
    <3>2. QED
      BY <2>1, <2>2, <3>1, NextFrameType DEF TypeOK
  <2>4. RxEffect(c)
    BY <2>1, <2>2, NextFrameType DEF RxEffect, Finished
  <2>5. QED
    BY <2>3, <2>4
<1>8. QED
  BY <1>1, <1>2, <1>3, <1>4, <1>5, <1>6, <1>7 DEF RxThread

\* The parts of TypeOK that a library call can disturb.
LEMMA CallTypes ==
    ASSUME TypeOK, NEW t \in Threads, NEW r \in Api,
           api' = [api EXCEPT ![t] = r],
           UNCHANGED <<calls, rxpc, left, ctx>>,
           t \in Apps \/ InCallback(t) \/ api[t] # NoApi,
           freed' \subseteq Contexts, owed' \in [Channels -> SUBSET Contexts],
           \A c \in Channels : owed'[c] # {} => owed[c] # {} \/ rxpc[c] = "calling",
           conns' \subseteq Channels, running' \in [Channels -> BOOLEAN],
           joinable' \in [Channels -> BOOLEAN],
           notify' \in [Channels -> Contexts \cup {NoCb}],
           used' \subseteq Contexts, closed' \subseteq Channels
    PROVE  TypeOK'
<1>1. api' \in [Threads -> Api] /\ \A u \in Threads : u # t => api'[u] = api[u]
  BY ApiMoves
<1>2. \A c \in Channels :
        /\ left'[c] > 0 <=> rxpc'[c] \in {"push", "gated", "calling"}
        /\ ctx'[c] # NoCb <=> rxpc'[c] = "calling"
        /\ api'[c] # NoApi \/ owed'[c] # {} => rxpc'[c] = "calling"
  BY <1>1, CallType DEF rxVars
<1>3. QED
  BY <1>1, <1>2 DEF TypeOK

\* A thread that frees a context as its call returns.
LEMMA ReturnTypes ==
    ASSUME TypeOK, NEW t \in Threads, api' = [api EXCEPT ![t] = NoApi],
           NEW x \in Contexts \cup {NoCb}, Retire(t, x),
           UNCHANGED <<calls, conns, running, rxpc, left, ctx, used>>,
           t \in Apps \/ InCallback(t) \/ api[t] # NoApi,
           joinable' \in [Channels -> BOOLEAN],
           notify' \in [Channels -> Contexts \cup {NoCb}],
           closed' \subseteq Channels
    PROVE  TypeOK'
<1>1. NoApi \in Api
  BY DEF Api
<1>2. /\ freed' \subseteq Contexts /\ owed' \in [Channels -> SUBSET Contexts]
      /\ \A c \in Channels : owed'[c] # {} => owed[c] # {} \/ rxpc[c] = "calling"
  BY RetireType
<1>3. /\ conns' \subseteq Channels /\ running' \in [Channels -> BOOLEAN]
      /\ used' \subseteq Contexts
  BY DEF TypeOK
<1>4. QED
  BY <1>1, <1>2, <1>3, CallTypes

\* A record of api is one of the forms of Api.
LEMMA ApiOf ==
    ASSUME TypeOK, NEW t \in Threads
    PROVE  /\ api[t] \in Api
           /\ api[t].pc \in {"idle", "swap", "drain"} \cup CloserPcs
           /\ api[t].pc = "idle" <=> api[t] = NoApi
           /\ api[t].pc = "swap" => /\ api[t].chan \in Channels
                                    /\ api[t].new \in Contexts \cup {NoCb}
           /\ api[t].pc = "drain" => /\ api[t].chan \in Channels
                                     /\ api[t].old \in Contexts \cup {NoCb}
           /\ api[t].pc \in CloserPcs => api[t].chan \in Channels
<1>1. api[t] \in Api
  BY DEF TypeOK
<1>2. QED
  BY <1>1, ApiForms

LEMMA CallStep ==
    ASSUME TypeOK, NEW t \in Threads, LibraryCall(t)
    PROVE  TypeOK'
<1>1. ASSUME NEW c \in Channels, NEW x \in Contexts \cup {NoCb},
             SetNotifyLookup(t, c, x)
      PROVE  TypeOK'
  <2>1. [pc |-> "swap", chan |-> c, new |-> x] \in Api
    BY DEF Api
  <2>2. used' \subseteq Contexts
    BY <1>1 DEF SetNotifyLookup, TypeOK
  <2>3. /\ api' = [api EXCEPT ![t] = [pc |-> "swap", chan |-> c, new |-> x]]
        /\ t \in Apps \/ InCallback(t)
        /\ UNCHANGED <<calls, conns, running, joinable, notify, rxpc, left, ctx,
                      freed, owed, closed>>
    BY <1>1 DEF SetNotifyLookup, MayCall, tableVars, rxVars
  <2>4. QED
    BY <2>1, <2>2, <2>3, CallTypes DEF TypeOK
<1>2. CASE SetNotifySwap(t)
  <2> DEFINE c == api[t].chan
  <2>1. /\ api[t].pc = "swap" /\ api[t] # NoApi /\ c \in Channels
        /\ api[t].new \in Contexts \cup {NoCb}
    BY <1>2, ApiOf DEF SetNotifySwap, NoApi
  <2>2. /\ notify' = [notify EXCEPT ![c] = api[t].new]
        /\ UNCHANGED <<calls, conns, running, joinable, rxpc, left, ctx, used,
                      closed>>
    BY <1>2 DEF SetNotifySwap, tableVars, rxVars
  <2>3. /\ notify' \in [Channels -> Contexts \cup {NoCb}]
        /\ notify[c] \in Contexts \cup {NoCb}
    BY <2>1, <2>2 DEF TypeOK
  <2>4. CASE InCallback(t)
    <3>1. api' = [api EXCEPT ![t] = NoApi] /\ Retire(t, notify[c])
      BY <1>2, <2>4 DEF SetNotifySwap
    <3>2. QED
      BY <2>1, <2>2, <2>3, <3>1, ReturnTypes DEF TypeOK
  <2>5. CASE ~InCallback(t)
    <3>1. /\ api' = [api EXCEPT ![t] =
                       [pc |-> "drain", chan |-> c, old |-> notify[c]]]
          /\ UNCHANGED <<freed, owed>>
      BY <1>2, <2>5 DEF SetNotifySwap
    <3>2. [pc |-> "drain", chan |-> c, old |-> notify[c]] \in Api
      BY <2>1, <2>3 DEF Api
    <3>3. QED
      BY <2>1, <2>2, <2>3, <3>1, <3>2, CallTypes DEF TypeOK
  <2>6. QED
    BY <2>4, <2>5
<1>3. CASE SetNotifyDrain(t)
  <2>1. api[t] # NoApi /\ api[t].old \in Contexts \cup {NoCb}
    BY <1>3, ApiOf DEF SetNotifyDrain, NoApi
  <2>2. /\ api' = [api EXCEPT ![t] = NoApi] /\ Retire(t, api[t].old)
        /\ UNCHANGED <<calls, conns, running, joinable, notify, rxpc, left, ctx,
                      used, closed>>
    BY <1>3 DEF SetNotifyDrain, tableVars, rxVars
  <2>3. QED
    BY <2>1, <2>2, ReturnTypes DEF TypeOK
<1>4. ASSUME NEW c \in Channels, CloseRemove(t, c) PROVE TypeOK'
  <2>1. /\ t \in Apps \/ InCallback(t)
        /\ UNCHANGED <<calls, running, joinable, notify, rxpc, left, ctx, used>>
    BY <1>4 DEF CloseRemove, MayCall, rxVars
  <2>2. CASE c \in conns
    <3>1. /\ conns' = conns \ {c}
          /\ api' = [api EXCEPT ![t] = [pc |-> "stop", chan |-> c]]
          /\ UNCHANGED <<freed, owed, closed>>
      BY <1>4, <2>2 DEF CloseRemove
    <3>2. [pc |-> "stop", chan |-> c] \in Api
      BY DEF Api
    <3>3. QED
      BY <2>1, <3>1, <3>2, CallTypes DEF TypeOK
  <2>3. CASE c \notin conns
    <3>1. /\ closed' = closed \cup {c} /\ Retire(t, notify[c])
          /\ api' = [api EXCEPT ![t] = NoApi] /\ conns' = conns
      BY <1>4, <2>3 DEF CloseRemove, CloseReturn
    <3>2. QED
      BY <2>1, <3>1, ReturnTypes DEF TypeOK
  <2>4. QED
    BY <2>2, <2>3
<1>5. CASE CloseStop(t)
  <2>1. /\ api[t] \in Api /\ api[t].pc \in CloserPcs /\ api[t] # NoApi
        /\ api[t].chan \in Channels
    BY <1>5, ApiOf DEF CloseStop, CloserPcs, NoApi
  <2>2. /\ api' = [api EXCEPT ![t] = [api[t] EXCEPT !.pc = "take"]]
        /\ [api[t] EXCEPT !.pc = "take"] \in Api
    BY <1>5, <2>1, CloserMoves DEF CloseStop, CloserPcs
  <2>3. /\ running' = [running EXCEPT ![api[t].chan] = FALSE]
        /\ UNCHANGED <<calls, conns, joinable, notify, rxpc, left, ctx, used,
                      freed, owed, closed>>
    BY <1>5 DEF CloseStop, rxVars, histVars
  <2>4. QED
    BY <2>1, <2>2, <2>3, CallTypes DEF TypeOK
<1>6. CASE CloseTake(t)
  <2> DEFINE c == api[t].chan
  <2>1. /\ api[t] \in Api /\ api[t].pc \in CloserPcs /\ api[t] # NoApi
        /\ c \in Channels
    BY <1>6, ApiOf DEF CloseTake, CloserPcs, NoApi
  <2>2. /\ joinable' = [joinable EXCEPT ![c] = FALSE]
        /\ UNCHANGED <<calls, conns, running, notify, rxpc, left, ctx, used>>
    BY <1>6 DEF CloseTake, rxVars
  <2>3. CASE joinable[c] /\ t # c
    <3>1. /\ api' = [api EXCEPT ![t] = [api[t] EXCEPT !.pc = "join"]]
          /\ [api[t] EXCEPT !.pc = "join"] \in Api
          /\ UNCHANGED <<freed, owed, closed>>
      BY <1>6, <2>1, <2>3, CloserMoves DEF CloseTake, CloserPcs
    <3>2. QED
      BY <2>1, <2>2, <3>1, CallTypes DEF TypeOK
  <2>4. CASE ~joinable[c] \/ t = c
    <3>1. /\ closed' = closed \cup {c} /\ Retire(t, notify[c])
          /\ api' = [api EXCEPT ![t] = NoApi]
      BY <1>6, <2>4 DEF CloseTake, CloseReturn
    <3>2. QED
      BY <2>1, <2>2, <3>1, ReturnTypes DEF TypeOK
  <2>5. QED
    BY <2>3, <2>4
<1>7. CASE CloseJoin(t)
  <2>1. api[t] # NoApi /\ api[t].chan \in Channels
    BY <1>7, ApiOf DEF CloseJoin, CloserPcs, NoApi
  <2>2. /\ closed' = closed \cup {api[t].chan} /\ Retire(t, notify[api[t].chan])
        /\ api' = [api EXCEPT ![t] = NoApi]
        /\ UNCHANGED <<calls, conns, running, joinable, notify, rxpc, left, ctx,
                      used>>
    BY <1>7 DEF CloseJoin, CloseReturn, tableVars, rxVars
  <2>3. QED
    BY <2>1, <2>2, ReturnTypes DEF TypeOK
<1>8. QED
  BY <1>1, <1>2, <1>3, <1>4, <1>5, <1>6, <1>7 DEF LibraryCall

LEMMA GateTypeStep == TypeOK /\ [Next]_vars => TypeOK'
<1> SUFFICES ASSUME TypeOK, [Next]_vars PROVE TypeOK'
  OBVIOUS
<1>1. CASE UNCHANGED vars
  BY <1>1 DEF vars, TypeOK
<1>2. QED
  BY <1>1, RxStep, CallStep DEF Next

\* The types hold, and with them the bookkeeping of the RX threads: one that is
\* inside a library call, or owes a context, is running a callback.
THEOREM GateTypeCorrect == Spec => []TypeOK
  BY GateTypeInit, GateTypeStep, PTL DEF Spec

-----------------------------------------------------------------------------
(* Who is closing what. *)

\* What a library call may do, but for the contexts it frees.
LEMMA CallEffect ==
    ASSUME TypeOK, NEW t \in Threads, LibraryCall(t)
    PROVE  /\ UNCHANGED <<calls, rxpc, left, ctx>>
           /\ \A u \in Threads : u # t => api'[u] = api[u]
  BY DEF LibraryCall, SetNotifyLookup, SetNotifySwap, SetNotifyDrain,
     CloseRemove, CloseStop, CloseTake, CloseJoin, CloseReturn, tableVars,
     rxVars, TypeOK

\* A closing thread that goes on does so on the same channel.
LEMMA CloserStep ==
    ASSUME TypeOK, NEW t \in Threads
    PROVE  /\ CloseStop(t) => /\ api[t].pc = "stop" /\ api'[t].pc = "take"
                              /\ api'[t].chan = api[t].chan
           /\ CloseTake(t) /\ joinable[api[t].chan] /\ t # api[t].chan =>
                              /\ api[t].pc = "take" /\ api'[t].pc = "join"
                              /\ api'[t].chan = api[t].chan
           /\ CloseTake(t) /\ ~(joinable[api[t].chan] /\ t # api[t].chan) =>
                api[t].pc = "take" /\ api'[t] = NoApi
<1>1. ASSUME NEW p \in CloserPcs, api[t].pc \in CloserPcs,
             api' = [api EXCEPT ![t] = [api[t] EXCEPT !.pc = p]]
      PROVE  api'[t].pc = p /\ api'[t].chan = api[t].chan
  <2>1. /\ [api[t] EXCEPT !.pc = p] \in Api
        /\ [api[t] EXCEPT !.pc = p].pc = p
        /\ [api[t] EXCEPT !.pc = p].chan = api[t].chan
    BY <1>1, ApiOf, CloserMoves
  <2>2. api'[t] = [api[t] EXCEPT !.pc = p]
    BY <1>1, <2>1, ApiMoves
  <2>3. QED
    BY <2>1, <2>2
<1>2. CASE CloseStop(t)
  <2>1. api' = [api EXCEPT ![t] = [api[t] EXCEPT !.pc = "take"]]
    BY <1>2 DEF CloseStop
  <2>2. api[t].pc = "stop"
    BY <1>2 DEF CloseStop
  <2>3. api'[t].pc = "take" /\ api'[t].chan = api[t].chan
    BY <1>1, <2>1, <2>2 DEF CloserPcs
  <2>4. ~CloseTake(t)
    BY <2>2 DEF CloseTake
  <2>5. QED
    BY <2>2, <2>3, <2>4
<1>3. CASE CloseTake(t) /\ joinable[api[t].chan] /\ t # api[t].chan
  <2>1. api' = [api EXCEPT ![t] = [api[t] EXCEPT !.pc = "join"]]
    BY <1>3 DEF CloseTake
  <2>2. api[t].pc = "take"
    BY <1>3 DEF CloseTake
  <2>3. api'[t].pc = "join" /\ api'[t].chan = api[t].chan
    BY <1>1, <2>1, <2>2 DEF CloserPcs
  <2>4. ~CloseStop(t)
    BY <2>2 DEF CloseStop
  <2>5. QED
    BY <1>3, <2>2, <2>3, <2>4
<1>4. CASE CloseTake(t) /\ ~(joinable[api[t].chan] /\ t # api[t].chan)
  BY <1>4 DEF CloseTake, CloseStop, CloseReturn, TypeOK
<1>5. QED
  BY <1>2, <1>3, <1>4

LEMMA EntitledStep ==
    ASSUME TypeOK, Entitled, [Next]_vars PROVE Entitled'
<1>1. CASE UNCHANGED vars
  BY <1>1 DEF vars, Entitled
<1>2. ASSUME NEW c \in Channels, RxThread(c) PROVE Entitled'
  BY <1>2, RxStep DEF RxEffect, Entitled
<1>3. ASSUME NEW t \in Threads, LibraryCall(t) PROVE Entitled'
  <2>1. /\ calls' = calls /\ \A u \in Threads : u # t => api'[u] = api[u]
    BY <1>3, CallEffect
  <2>2. api[t] \in Api /\ (api[t] # NoApi => t \in Apps \/ InCallback(t))
    BY DEF TypeOK, InCallback, Threads
  <2> DEFINE Good ==
        /\ api'[t].pc = "swap" => <<"set_notify", api'[t].chan>> \in calls[t]
        /\ api'[t].pc = "drain" => t \in Apps
        /\ api'[t].pc \in CloserPcs => <<"close", api'[t].chan>> \in calls[t]
  <2>3. Good
    <3>1. ASSUME NEW c \in Channels, NEW x \in Contexts \cup {NoCb},
                 SetNotifyLookup(t, c, x)
          PROVE  Good
      <4>1. /\ api'[t] = [pc |-> "swap", chan |-> c, new |-> x]
            /\ <<"set_notify", c>> \in calls[t]
        BY <3>1 DEF SetNotifyLookup, MayCall, TypeOK
      <4>2. QED
        BY <4>1 DEF CloserPcs
    <3>2. CASE api'[t] = NoApi
      BY <3>2 DEF NoApi, CloserPcs
    <3>3. CASE SetNotifySwap(t)
      <4>1. CASE InCallback(t)
        BY <3>2, <3>3, <4>1 DEF SetNotifySwap, TypeOK
      <4>2. CASE ~InCallback(t)
        <5>1. t \in Apps
          BY <2>2, <3>3, <4>2 DEF SetNotifySwap, NoApi
        <5>2. api'[t].pc = "drain"
          BY <3>3, <4>2 DEF SetNotifySwap, TypeOK
        <5>3. QED
          BY <5>1, <5>2 DEF CloserPcs
      <4>3. QED
        BY <4>1, <4>2
    <3>4. ASSUME NEW c \in Channels, CloseRemove(t, c) PROVE Good
      <4>1. \/ api'[t] = NoApi
            \/ /\ api'[t] = [pc |-> "stop", chan |-> c]
               /\ <<"close", c>> \in calls[t]
        BY <3>4 DEF CloseRemove, CloseReturn, MayCall, TypeOK
      <4>2. QED
        BY <3>2, <4>1 DEF CloserPcs
    <3>5. CASE CloseStop(t) \/ CloseTake(t)
      <4>1. \/ api'[t] = NoApi
            \/ /\ api'[t].pc \in CloserPcs /\ api'[t].chan = api[t].chan
               /\ api[t].pc \in CloserPcs
        BY <3>5, CloserStep DEF CloserPcs
      <4>2. QED
        BY <3>2, <4>1 DEF CloserPcs, Entitled
    <3>6. CASE SetNotifyDrain(t) \/ CloseJoin(t)
      BY <3>2, <3>6 DEF SetNotifyDrain, CloseJoin, CloseReturn, TypeOK
    <3>7. QED
      BY <1>3, <3>1, <3>3, <3>4, <3>5, <3>6 DEF LibraryCall
  <2>4. QED
    BY <2>1, <2>3 DEF Entitled
<1>4. QED
  BY <1>1, <1>2, <1>3 DEF Next

\* At most one thread is closing a channel, since only one may.
LEMMA OneCloser ==
    ASSUME Disciplined, TypeOK, Entitled, NEW t \in Threads, NEW u \in Threads,
           NEW c \in Channels, <<"close", c>> \in calls[t],
           api[u].pc \in CloserPcs, api[u].chan = c
    PROVE  t = u
  BY DEF Disciplined, TypeOK, Entitled

\* The steps with which a canClose of c by t returns, and where they leave the
\* RX thread of c: it has ended, or it is t, in its last callback.
Returning(t, c) ==
    \/ CloseRemove(t, c) /\ c \notin conns
    \/ CloseTake(t) /\ api[t].chan = c /\ (~joinable[c] \/ t = c)
    \/ CloseJoin(t) /\ api[t].chan = c

LEMMA ReturningMeansFinished ==
    ASSUME Disciplined, TypeOK, Entitled, Closing,
           NEW t \in Threads, NEW c \in Channels, Returning(t, c)
    PROVE  Finished(c) /\ (rxpc[c] = "exited" \/ t = c)
<1>1. rxpc[c] = "exited" => Finished(c)
  BY Bounds DEF Closing, Finished, TypeOK
<1>2. CASE CloseRemove(t, c) /\ c \notin conns
  <2>1. <<"close", c>> \in calls[t] /\ api[t] = NoApi
    BY <1>2 DEF CloseRemove, MayCall
  <2>2. \A u \in Threads : ~(api[u].pc \in CloserPcs /\ api[u].chan = c)
    BY <2>1, OneCloser DEF NoApi, CloserPcs
  <2>3. CASE Finished(c) /\ <<"close", c>> \in calls[c]
    <3>1. t = c
      BY <2>1, <2>3, Bounds DEF Disciplined, TypeOK
    <3>2. QED
      BY <2>3, <3>1
  <2>4. QED
    BY <1>1, <1>2, <2>2, <2>3 DEF Closing
<1>3. CASE CloseTake(t) /\ api[t].chan = c /\ (~joinable[c] \/ t = c)
  <2>1. api[t].pc = "take"
    BY <1>3 DEF CloseTake
  <2>2. joinable[c] /\ ~running[c] /\ <<"close", c>> \in calls[t]
    BY <1>3, <2>1 DEF Closing, Entitled, CloserPcs
  <2>3. t = c
    BY <1>3, <2>2
  <2>4. rxpc[c] = "calling"
    BY <2>1, <2>3 DEF TypeOK, NoApi
  <2>5. Batch = 1
    BY <2>2, <2>3 DEF Disciplined, TypeOK
  <2>6. left[c] <= 1
    BY <2>5 DEF TypeOK
  <2>7. QED
    BY <2>2, <2>3, <2>4, <2>6 DEF Finished
<1>4. CASE CloseJoin(t) /\ api[t].chan = c
  BY <1>1, <1>4 DEF CloseJoin
<1>5. QED
  BY <1>2, <1>3, <1>4 DEF Returning

\* A step of a thread that is not closing, before or after.
LEMMA ClosingKept ==
    ASSUME TypeOK, Closing, NEW t \in Threads,
           api[t].pc \notin CloserPcs, api'[t].pc \notin CloserPcs,
           \A u \in Threads : u # t => api'[u] = api[u],
           UNCHANGED <<calls, conns, running, joinable, rxpc, left>>,
           \A c \in closed' : c \in closed \/ Finished(c)
    PROVE  Closing'
<1>1. \A c \in Channels : Finished(c)' <=> Finished(c)
  BY DEF Finished
<1>2. \A u \in Threads : api'[u].pc \in CloserPcs \/ api[u].pc \in CloserPcs
                           => api'[u] = api[u]
  OBVIOUS
<1>3. \A c \in closed' : Finished(c)'
  BY DEF Closing, Finished
<1>4. \A u \in Threads : api'[u].pc \in CloserPcs =>
         /\ api'[u].chan \notin conns'
         /\ api'[u].pc # "join" => joinable'[api'[u].chan]
         /\ api'[u].pc # "stop" => ~running'[api'[u].chan]
  BY <1>2 DEF Closing
<1>5. \A c \in Channels \ conns' :
         \/ rxpc'[c] = "exited"
         \/ Finished(c)' /\ <<"close", c>> \in calls'[c]
         \/ \E u \in Threads : api'[u].pc \in CloserPcs /\ api'[u].chan = c
  <2> SUFFICES ASSUME NEW c \in Channels \ conns,
                      NEW u \in Threads, api[u].pc \in CloserPcs, api[u].chan = c
               PROVE  api'[u].pc \in CloserPcs /\ api'[u].chan = c
    BY <1>1 DEF Closing
  <2>1. QED
    BY <1>2
<1>6. /\ \A c \in conns' : joinable'[c]
      /\ \A c \in Channels : rxpc'[c] = "exited" => ~running'[c]
  BY DEF Closing
<1>7. QED
  BY <1>3, <1>4, <1>5, <1>6 DEF Closing

LEMMA ClosingStep ==
    ASSUME Disciplined, TypeOK, Entitled, Closing, [Next]_vars PROVE Closing'
<1>1. CASE UNCHANGED vars
  BY <1>1 DEF vars, Closing, Finished
<1>2. ASSUME NEW c \in Channels, RxThread(c) PROVE Closing'
  <2>1. RxEffect(c)
    BY <1>2, RxStep
  <2>2. \A d \in Channels : Finished(d) => Finished(d)'
    BY <2>1 DEF RxEffect, Finished
  <2>3. \A d \in Channels : /\ running'[d] => running[d]
                            /\ rxpc[d] = "exited" => rxpc'[d] = "exited"
                            /\ rxpc'[d] = "exited" => ~running'[d]
    BY <2>1 DEF RxEffect, Closing
  <2>4. UNCHANGED <<calls, conns, joinable, api, closed>>
    BY <2>1 DEF RxEffect
  <2>5. \A u \in Threads : api[u].pc \in CloserPcs => api[u].chan \in Channels
    BY ApiOf
  <2>6. closed \subseteq Channels /\ conns \subseteq Channels
    BY DEF TypeOK
  <2>7. QED
    BY <2>2, <2>3, <2>4, <2>5, <2>6 DEF Closing
<1>3. ASSUME NEW t \in Threads, LibraryCall(t) PROVE Closing'
  <2>0. /\ UNCHANGED <<calls, rxpc, left>>
        /\ \A u \in Threads : u # t => api'[u] = api[u]
    BY <1>3, CallEffect
  <2>1. ASSUME NEW c \in Channels, NEW x \in Contexts \cup {NoCb},
               SetNotifyLookup(t, c, x)
        PROVE  Closing'
    <3>1. api[t].pc \notin CloserPcs /\ api'[t].pc \notin CloserPcs
      BY <2>1 DEF SetNotifyLookup, MayCall, NoApi, CloserPcs, TypeOK
    <3>2. QED
      BY <2>0, <2>1, <3>1, ClosingKept DEF SetNotifyLookup, tableVars
  <2>2. CASE SetNotifySwap(t)
    <3>1. api[t].pc \notin CloserPcs /\ api'[t].pc \notin CloserPcs
      BY <2>2 DEF SetNotifySwap, NoApi, CloserPcs, TypeOK
    <3>2. QED
      BY <2>0, <2>2, <3>1, ClosingKept DEF SetNotifySwap, tableVars
  <2>3. CASE SetNotifyDrain(t)
    <3>1. api[t].pc \notin CloserPcs /\ api'[t].pc \notin CloserPcs
      BY <2>3 DEF SetNotifyDrain, NoApi, CloserPcs, TypeOK
    <3>2. QED
      BY <2>0, <2>3, <3>1, ClosingKept DEF SetNotifyDrain, tableVars
  <2>4. ASSUME NEW c \in Channels, CloseRemove(t, c), c \notin conns
        PROVE  Closing'
    <3>1. Finished(c)
      BY <2>4, ReturningMeansFinished DEF Returning
    <3>2. api[t].pc \notin CloserPcs /\ api'[t].pc \notin CloserPcs
      BY <2>4 DEF CloseRemove, CloseReturn, MayCall, NoApi, CloserPcs, TypeOK
    <3>3. QED
      BY <2>0, <2>4, <3>1, <3>2, ClosingKept DEF CloseRemove, CloseReturn
  <2>5. ASSUME NEW c \in Channels, CloseRemove(t, c), c \in conns
        PROVE  Closing'
    <3>1. /\ conns' = conns \ {c} /\ UNCHANGED <<running, joinable, closed>>
          /\ api'[t] = [pc |-> "stop", chan |-> c]
          /\ api[t].pc \notin CloserPcs
      BY <2>5 DEF CloseRemove, MayCall, TypeOK, NoApi, CloserPcs
    <3>2. api'[t].pc = "stop" /\ api'[t].chan = c /\ "stop" \in CloserPcs
      BY <3>1 DEF CloserPcs
    <3>3. \A d \in Channels : Finished(d)' <=> Finished(d)
      BY <2>0, <3>1 DEF Finished
    <3>4. closed \subseteq Channels
      BY DEF TypeOK
    <3>5. QED
      BY <2>0, <2>5, <3>1, <3>2, <3>3, <3>4 DEF Closing
  <2>6. CASE CloseStop(t)
    <3> DEFINE c == api[t].chan
    <3>1. /\ api[t].pc = "stop" /\ api'[t].pc = "take" /\ api'[t].chan = c
          /\ c \in Channels
      BY <2>6, CloserStep, ApiOf DEF CloserPcs
    <3>2. /\ running' = [running EXCEPT ![c] = FALSE]
          /\ UNCHANGED <<conns, joinable, closed>>
      BY <2>6 DEF CloseStop, histVars
    <3>3. ~running'[c] /\ \A d \in Channels : running'[d] => running[d]
      BY <3>1, <3>2 DEF TypeOK
    <3>4. \A d \in Channels : Finished(d) => Finished(d)'
      BY <2>0, <3>3 DEF Finished
    <3>5. /\ closed \subseteq Channels /\ conns \subseteq Channels
          /\ \A u \in Threads : api[u].pc \in CloserPcs => api[u].chan \in Channels
      BY ApiOf DEF TypeOK
    <3>6. api[t].pc \in CloserPcs /\ api'[t].pc \in CloserPcs
      BY <3>1 DEF CloserPcs
    <3> HIDE DEF c
    <3>7. \A u \in Threads : api'[u].pc \in CloserPcs =>
            /\ api'[u].chan \notin conns'
            /\ api'[u].pc # "join" => joinable'[api'[u].chan]
            /\ api'[u].pc # "stop" => ~running'[api'[u].chan]
      <4>1. ASSUME NEW u \in Threads, u # t, api'[u].pc \in CloserPcs
            PROVE  /\ api'[u].chan \notin conns'
                   /\ api'[u].pc # "join" => joinable'[api'[u].chan]
                   /\ api'[u].pc # "stop" => ~running'[api'[u].chan]
        BY <2>0, <3>2, <3>3, <3>5, <4>1 DEF Closing
      <4>2. c \notin conns /\ joinable[c]
        BY <3>1, <3>6 DEF Closing, c
      <4>3. QED
        BY <3>1, <3>2, <3>3, <4>1, <4>2
    <3>8. \A d \in Channels \ conns' :
            \/ rxpc'[d] = "exited"
            \/ Finished(d)' /\ <<"close", d>> \in calls'[d]
            \/ \E u \in Threads : api'[u].pc \in CloserPcs /\ api'[u].chan = d
      <4>1. \A u \in Threads : api[u].pc \in CloserPcs =>
               api'[u].pc \in CloserPcs /\ api'[u].chan = api[u].chan
        BY <2>0, <3>1, <3>6 DEF c
      <4>2. ASSUME NEW d \in Channels \ conns,
                   NEW u \in Threads, api[u].pc \in CloserPcs, api[u].chan = d
            PROVE  api'[u].pc \in CloserPcs /\ api'[u].chan = d
        BY <4>1, <4>2
      <4>3. QED
        BY <2>0, <3>2, <3>4, <4>2 DEF Closing
    <3>9. QED
      BY <2>0, <3>2, <3>3, <3>4, <3>5, <3>7, <3>8 DEF Closing
  <2>7. CASE CloseTake(t) \/ CloseJoin(t)
    <3> DEFINE c == api[t].chan
    <3>1. /\ api[t].pc \in CloserPcs /\ c \in Channels /\ c \notin conns
          /\ <<"close", c>> \in calls[t]
          /\ ~running[c]
      BY <2>7, ApiOf DEF CloseTake, CloseJoin, CloserPcs, Closing, Entitled
    <3>2. \A u \in Threads : u # t /\ api[u].pc \in CloserPcs => api[u].chan # c
      BY <3>1, OneCloser
    <3>3. /\ UNCHANGED <<conns, running>>
          /\ \A d \in Channels : d # c => joinable'[d] = joinable[d]
      BY <2>7 DEF CloseTake, CloseJoin, tableVars, TypeOK
    <3>4. \A d \in Channels : Finished(d)' <=> Finished(d)
      BY <2>0, <3>3 DEF Finished
    <3>5. \/ closed' = closed /\ api'[t].pc = "join" /\ api'[t].chan = c
          \/ /\ closed' = closed \cup {c} /\ api'[t] = NoApi
             /\ Returning(t, c)
      <4>1. CASE CloseTake(t) /\ joinable[c] /\ t # c
        <5>1. api[t].pc = "take" /\ closed' = closed
          BY <4>1 DEF CloseTake
        <5>2. QED
          BY <4>1, <5>1, CloserStep
      <4>2. CASE CloseTake(t) /\ (~joinable[c] \/ t = c)
        <5>1. closed' = closed \cup {c}
          BY <4>2 DEF CloseTake, CloseReturn
        <5>2. api'[t] = NoApi
          BY <4>2, CloserStep
        <5>3. QED
          BY <4>2, <5>1, <5>2 DEF Returning
      <4>3. CASE CloseJoin(t)
        BY <4>3 DEF CloseJoin, CloseReturn, Returning, TypeOK
      <4>4. QED
        BY <2>7, <4>1, <4>2, <4>3
    <3> HIDE DEF c
    <3>6. \A d \in closed' : Finished(d)'
      BY <3>1, <3>4, <3>5, ReturningMeansFinished DEF Closing, TypeOK
    <3>7. \A u \in Threads : api'[u].pc \in CloserPcs =>
            /\ api'[u].chan \notin conns'
            /\ api'[u].pc # "join" => joinable'[api'[u].chan]
            /\ api'[u].pc # "stop" => ~running'[api'[u].chan]
      <4>1. ASSUME NEW u \in Threads, u # t, api'[u].pc \in CloserPcs
            PROVE  /\ api'[u].chan \notin conns'
                   /\ api'[u].pc # "join" => joinable'[api'[u].chan]
                   /\ api'[u].pc # "stop" => ~running'[api'[u].chan]
        <5>1. api[u].chan \in Channels /\ api[u].chan # c
          BY <2>0, <3>2, <4>1, ApiOf
        <5>2. QED
          BY <2>0, <3>3, <4>1, <5>1 DEF Closing
      <4>2. NoApi.pc \notin CloserPcs
        BY DEF NoApi, CloserPcs
      <4>3. QED
        BY <3>1, <3>3, <3>5, <4>1, <4>2
    <3>8. \A d \in Channels \ conns' :
            \/ rxpc'[d] = "exited"
            \/ Finished(d)' /\ <<"close", d>> \in calls'[d]
            \/ \E u \in Threads : api'[u].pc \in CloserPcs /\ api'[u].chan = d
      <4>1. ASSUME NEW d \in Channels \ conns, d # c
            PROVE  \/ rxpc'[d] = "exited"
                   \/ Finished(d)' /\ <<"close", d>> \in calls'[d]
                   \/ \E u \in Threads : api'[u].pc \in CloserPcs /\ api'[u].chan = d
        BY <2>0, <3>4, <4>1 DEF Closing, c
      <4>2. CASE Returning(t, c)
        <5>1. Finished(c) /\ (rxpc[c] = "exited" \/ t = c)
          BY <3>1, <4>2, ReturningMeansFinished
        <5>2. QED
          BY <2>0, <3>1, <3>3, <3>4, <4>1, <5>1
      <4>3. CASE api'[t].pc = "join" /\ api'[t].chan = c
        BY <3>3, <4>1, <4>3 DEF CloserPcs
      <4>4. QED
        BY <3>5, <4>2, <4>3
    <3>9. \A d \in conns' : joinable'[d]
      BY <3>1, <3>3 DEF Closing, TypeOK
    <3>10. QED
      BY <2>0, <3>3, <3>6, <3>7, <3>8, <3>9 DEF Closing
  <2>8. QED
    BY <1>3, <2>1, <2>2, <2>3, <2>4, <2>5, <2>6, <2>7 DEF LibraryCall
<1>4. QED
  BY <1>1, <1>2, <1>3 DEF Next

-----------------------------------------------------------------------------
(* Where every context is. *)

Custody == Single /\ New /\ Replaced /\ Released /\ ContextOutlivesCallback

LEMMA CustodyInit == Init => Custody
<1> SUFFICES ASSUME Init PROVE Custody
  OBVIOUS
<1>1. /\ \A t \in Threads : api[t].pc = "idle"
      /\ \A c \in Channels : notify[c] = NoCb /\ ctx[c] = NoCb /\ owed[c] = {}
      /\ \A c \in Channels : rxpc[c] = "loop"
      /\ freed = {}
  BY DEF Init, NoApi
<1>2. QED
  BY <1>1 DEF Custody, Single, New, Replaced, Released, ContextOutlivesCallback

\* A step of an RX thread: a context moves from "registered" to "in use", and
\* what the callback owes is freed when it has returned.
LEMMA RxCustody ==
    ASSUME TypeOK, Custody, NEW c \in Channels, RxThread(c) PROVE Custody'
<1>1. TypeOK' /\ RxEffect(c)
  BY RxStep
<1>2. /\ UNCHANGED <<notify, api, used>>
      /\ \A d \in Channels : d # c => /\ rxpc'[d] = rxpc[d] /\ ctx'[d] = ctx[d]
                                      /\ owed'[d] = owed[d]
      /\ \A d \in Channels : Finished(d) => Finished(d)'
  BY <1>1 DEF RxEffect, Finished
<1>3. /\ ctx'[c] \in {ctx[c], NoCb, notify[c]}
      /\ rxpc'[c] = "calling" => rxpc[c] = "gated" /\ ctx'[c] = notify[c]
      /\ ctx'[c] # ctx[c] => owed'[c] = {}
  <2>1. CASE rxpc'[c] # "calling"
    <3>1. ctx'[c] = NoCb /\ owed'[c] = {}
      BY <1>1, <2>1 DEF TypeOK
    <3>2. QED
      BY <2>1, <3>1
  <2>2. CASE rxpc'[c] = "calling"
    <3>1. rxpc[c] = "gated" /\ ctx'[c] = notify[c] /\ ctx'[c] # NoCb
      BY <1>1, <2>2 DEF RxEffect, TypeOK
    <3>2. owed[c] = {} /\ owed' = owed
      BY <1>1, <3>1 DEF RxEffect, TypeOK
    <3>3. QED
      BY <3>1, <3>2
  <2>3. QED
    BY <2>1, <2>2
<1>4. \/ freed' = freed /\ owed' = owed
      \/ freed' = freed \cup owed[c] /\ owed'[c] = {} /\ ctx'[c] = NoCb
  BY <1>1 DEF RxEffect
<1>5. /\ NoCb \notin freed
      /\ \A d \in Channels : NoCb \notin owed[d]
  BY Bounds DEF TypeOK
<1>6. Single'
  BY <1>2, <1>3 DEF Custody, Single
<1>7. /\ freed' \subseteq freed \cup owed[c]
      /\ owed[c] \subseteq {ctx[c]}
  BY <1>4 DEF Custody, Released
<1>8. New'
  BY <1>2, <1>3, <1>7 DEF Custody, New
<1>9. Replaced'
  BY <1>2, <1>3 DEF Custody, Replaced
<1>10. Released'
  <2>1. freed' \subseteq used
    BY <1>5, <1>7 DEF Custody, Released
  <2>2. ASSUME NEW d \in Channels
        PROVE  {notify'[d], ctx'[d]} \subseteq used \cup {NoCb}
    BY <1>2, <1>3 DEF Custody, Released
  <2>3. ASSUME NEW d \in Channels PROVE owed'[d] \subseteq {ctx'[d]}
    BY <1>2, <1>3, <1>4 DEF Custody, Released
  <2>4. ASSUME NEW d \in Channels, notify'[d] \in freed' \cup owed'[d]
        PROVE  Finished(d)'
    <3>1. notify[d] \in freed \cup owed[c] \cup owed[d]
      BY <1>2, <1>4, <2>4
    <3>2. notify[d] \in owed[c] => d = c
      BY <1>5, <1>7 DEF Custody, Single
    <3>3. Finished(d)
      BY <3>1, <3>2 DEF Custody, Released
    <3>4. QED
      BY <1>2, <3>3
  <2>5. QED
    BY <1>2, <2>1, <2>2, <2>3, <2>4 DEF Released
<1>11. ContextOutlivesCallback'
  <2> SUFFICES ASSUME NEW d \in Channels, rxpc'[d] = "calling"
               PROVE  ctx'[d] \notin freed'
    BY DEF ContextOutlivesCallback
  <2>1. CASE d = c
    <3>1. rxpc[c] = "gated" /\ ctx'[c] = notify[c] /\ ctx'[c] # NoCb
      BY <1>1, <1>3, <2>1 DEF TypeOK
    <3>2. freed' = freed
      BY <1>4, <3>1
    <3>3. notify[c] \notin freed
      BY <3>1 DEF Custody, Released, Finished
    <3>4. QED
      BY <2>1, <3>1, <3>2, <3>3
  <2>2. CASE d # c
    <3>1. rxpc[d] = "calling" /\ ctx'[d] = ctx[d] /\ ctx[d] # NoCb
      BY <1>1, <1>2, <2>2 DEF TypeOK
    <3>2. ctx[d] # ctx[c] /\ ctx[d] \notin freed
      BY <2>2, <3>1 DEF Custody, Single, ContextOutlivesCallback
    <3>3. QED
      BY <1>7, <3>1, <3>2
  <2>3. QED
    BY <2>1, <2>2
<1>12. QED
  BY <1>6, <1>8, <1>9, <1>10, <1>11 DEF Custody

\* Freeing a context x: it is in use by no callback but the caller's own, and
\* where it is registered no callback will start.
LEMMA RetireSafe ==
    ASSUME TypeOK, Custody, NEW t \in Threads, NEW x \in used \cup {NoCb},
           Retire(t, x), UNCHANGED <<running, rxpc, left, ctx, used>>,
           \A c \in Channels : x # NoCb /\ ctx[c] = x => c = t,
           \A c \in Channels : x # NoCb /\ notify'[c] = x => Finished(c),
           \A c \in Channels :
             \/ notify'[c] = notify[c]
             \/ notify'[c] = NoCb
             \/ /\ notify'[c] \in used \ freed
                /\ notify'[c] # x /\ notify'[c] # ctx[c]
    PROVE  /\ Released' /\ ContextOutlivesCallback'
           /\ freed' \subseteq freed \cup ({x} \ {NoCb})
<1>1. /\ NoCb \notin freed
      /\ \A d \in Channels : NoCb \notin owed[d]
      /\ \A d \in Channels : rxpc[d] = "calling" => ctx[d] # NoCb
  BY Bounds DEF TypeOK
<1>2. \A c \in Channels : Finished(c)' <=> Finished(c)
  BY DEF Finished
<1>3. CASE InCallback(t) /\ ctx[t] = x
  <2>1. t \in Channels /\ freed' = freed
    BY <1>3 DEF InCallback, Retire
  <2>2. owed' = [owed EXCEPT ![t] = owed[t] \cup ({x} \ {NoCb})]
    BY <1>3 DEF Retire
  <2>3. \A c \in Channels :
          owed'[c] = IF c = t THEN owed[t] \cup ({x} \ {NoCb}) ELSE owed[c]
    BY <2>1, <2>2 DEF TypeOK
  <2>4. \A c \in Channels : owed'[c] \subseteq {ctx'[c]}
    BY <1>3, <2>3 DEF Custody, Released
  <2>5. ASSUME NEW c \in Channels, notify'[c] \in freed' \cup owed'[c]
        PROVE  Finished(c)'
    BY <1>1, <1>2, <2>1, <2>3, <2>5 DEF Custody, Released
  <2>6. \A c \in Channels : {notify'[c], ctx'[c]} \subseteq used \cup {NoCb}
    BY DEF Custody, Released
  <2>7. QED
    BY <2>1, <2>4, <2>5, <2>6
    DEF Custody, Released, ContextOutlivesCallback
<1>4. CASE ~(InCallback(t) /\ ctx[t] = x)
  <2>1. freed' = freed \cup ({x} \ {NoCb}) /\ owed' = owed
    BY <1>4 DEF Retire
  <2>2. ContextOutlivesCallback'
    <3> SUFFICES ASSUME NEW c \in Channels, rxpc[c] = "calling", ctx[c] = x
                 PROVE  FALSE
      BY <2>1 DEF Custody, ContextOutlivesCallback
    <3>1. c = t
      BY <1>1
    <3>2. QED
      BY <1>4, <3>1 DEF InCallback
  <2>3. ASSUME NEW c \in Channels, notify'[c] \in freed' \cup owed'[c]
        PROVE  Finished(c)'
    BY <1>1, <1>2, <2>1, <2>3 DEF Custody, Released
  <2>4. \A c \in Channels : {notify'[c], ctx'[c]} \subseteq used \cup {NoCb}
    BY DEF Custody, Released
  <2>5. freed' \subseteq used /\ \A c \in Channels : owed'[c] \subseteq {ctx'[c]}
    BY <2>1 DEF Custody, Released
  <2>6. QED
    BY <2>1, <2>2, <2>3, <2>4, <2>5 DEF Released
<1>5. QED
  BY <1>3, <1>4

\* A step of a thread that leaves, or stays out of, set_notify.
LEMMA PendingKept ==
    ASSUME TypeOK, Custody, NEW t \in Threads, NEW x,
           api'[t].pc \notin {"swap", "drain"},
           \A u \in Threads : u # t => api'[u] = api[u],
           UNCHANGED <<notify, ctx, used>>,
           freed' \subseteq freed \cup {x},
           \A u \in Threads : u # t /\ api[u].pc = "swap" /\ api[u].new # NoCb =>
                                api[u].new # x
    PROVE  Single' /\ New' /\ Replaced'
<1>1. Single'
  BY DEF Custody, Single
<1>2. New'
  BY DEF Custody, New
<1>3. Replaced'
  BY DEF Custody, Replaced
<1>4. QED
  BY <1>1, <1>2, <1>3

\* canClose returns and the caller frees the context of the channel.
LEMMA CloseCustody ==
    ASSUME Disciplined, TypeOK, Entitled, Closing, Custody,
           NEW t \in Threads, NEW c \in Channels, Returning(t, c),
           CloseReturn(t, c), UNCHANGED <<notify, running, used>>,
           LibraryCall(t)
    PROVE  Custody'
<1>1. Finished(c) /\ (rxpc[c] = "exited" \/ t = c)
  BY ReturningMeansFinished
<1>2. /\ UNCHANGED <<rxpc, left, ctx>>
      /\ \A u \in Threads : u # t => api'[u] = api[u]
  BY CallEffect
<1>3. /\ Retire(t, notify[c]) /\ api'[t] = NoApi
      /\ NoApi.pc \notin {"swap", "drain"}
  BY DEF CloseReturn, TypeOK, NoApi
<1>4. notify[c] \in used \cup {NoCb}
  BY DEF Custody, Released
<1>5. \A d \in Channels : notify[c] # NoCb /\ ctx[d] = notify[c] => d = t
  BY <1>1 DEF Custody, Single, TypeOK
<1>6. \A d \in Channels : notify[c] # NoCb /\ notify'[d] = notify[c] => Finished(d)
  BY <1>1 DEF Custody, Single
<1>7. /\ Released' /\ ContextOutlivesCallback'
      /\ freed' \subseteq freed \cup ({notify[c]} \ {NoCb})
  BY <1>2, <1>3, <1>4, <1>5, <1>6, RetireSafe
<1>8. \A u \in Threads : api[u].pc = "swap" /\ api[u].new # NoCb =>
                           api[u].new # notify[c]
  BY DEF Custody, New
<1>9. Single' /\ New' /\ Replaced'
  BY <1>2, <1>3, <1>7, <1>8, PendingKept
<1>10. QED
  BY <1>7, <1>9 DEF Custody

\* set_notify replaces a context by a new one.
LEMMA SwapCustody ==
    ASSUME Disciplined, TypeOK, Entitled, Custody, NEW t \in Threads,
           SetNotifySwap(t)
    PROVE  Custody'
<1> DEFINE c == api[t].chan
           n == api[t].new
           o == notify[c]
<1>1. /\ api[t].pc = "swap" /\ c \in Channels /\ n \in Contexts \cup {NoCb}
      /\ api[t] # NoApi /\ <<"set_notify", c>> \in calls[t]
  BY ApiOf DEF SetNotifySwap, Entitled, NoApi
<1>2. /\ notify' = [notify EXCEPT ![c] = n]
      /\ UNCHANGED <<calls, conns, running, joinable, rxpc, left, ctx, used>>
  BY DEF SetNotifySwap, tableVars, rxVars
<1>3. /\ notify'[c] = n
      /\ \A d \in Channels : d # c => notify'[d] = notify[d]
  BY <1>1, <1>2 DEF TypeOK
<1>4. /\ o \in used \cup {NoCb}
      /\ o # NoCb => \A d \in Channels : d # c => o # notify[d] /\ o # ctx[d]
  BY <1>1 DEF Custody, Released, Single
<1>5. n # NoCb =>
        /\ n \in used \ freed
        /\ \A d \in Channels : n # notify[d] /\ n # ctx[d]
        /\ \A u \in Threads :
             /\ u # t /\ api[u].pc = "swap" => api[u].new # n
             /\ api[u].pc = "drain" => api[u].old # n
  BY <1>1 DEF Custody, New
<1>6. \A u \in Threads : api[u].pc = "swap" /\ api[u].new # NoCb =>
        \A d \in Channels : api[u].new # notify[d] /\ api[u].new # ctx[d]
  BY DEF Custody, New
<1>7. /\ NoCb \notin freed
      /\ \A d \in Channels : NoCb \notin owed[d]
  BY Bounds DEF TypeOK
<1> HIDE DEF c, n, o
<1>8. Single'
  <2>1. ASSUME NEW a \in Channels, NEW b \in Channels, a # b
        PROVE  /\ notify'[a] # NoCb => notify'[a] # notify'[b] /\ notify'[a] # ctx[b]
               /\ ctx[a] # NoCb => ctx[a] # ctx[b]
    BY <1>3, <1>5, <2>1 DEF Custody, Single
  <2>2. QED
    BY <1>2, <2>1 DEF Single
<1>9. CASE InCallback(t)
  <2>1. api' = [api EXCEPT ![t] = NoApi] /\ Retire(t, o)
    BY <1>9 DEF SetNotifySwap, c, o
  <2>2. t = c
    BY <1>1, <1>9 DEF Disciplined, TypeOK, InCallback
  <2>3. \A d \in Channels : o # NoCb /\ ctx[d] = o => d = t
    BY <1>4, <2>2
  <2>4. \A d \in Channels : o # NoCb => notify'[d] # o
    BY <1>1, <1>3, <1>4, <1>5 DEF o
  <2>5. \A d \in Channels :
          \/ notify'[d] = notify[d]
          \/ notify'[d] = NoCb
          \/ notify'[d] \in used \ freed /\ notify'[d] # o /\ notify'[d] # ctx[d]
    BY <1>1, <1>3, <1>5 DEF o
  <2>6. /\ Released' /\ ContextOutlivesCallback'
        /\ freed' \subseteq freed \cup ({o} \ {NoCb})
    BY <1>2, <1>4, <2>1, <2>3, <2>4, <2>5, RetireSafe
  <2>7. /\ api'[t].pc = "idle"
        /\ \A u \in Threads : u # t => api'[u] = api[u]
    BY <2>1 DEF TypeOK, NoApi
  <2>8. \A u \in Threads : api[u].pc = "swap" /\ api[u].new # NoCb =>
                             api[u].new # o
    BY <1>1, <1>6 DEF o
  <2>9. New'
    <3>1. ASSUME NEW u \in Threads, u # t, api[u].pc = "swap",
                 api[u].new # NoCb
          PROVE  /\ api[u].new \in used' \ freed'
                 /\ \A d \in Channels : api[u].new \notin {notify'[d], ctx'[d]}
                 /\ \A v \in Threads :
                      /\ v # u /\ api'[v].pc = "swap" => api'[v].new # api[u].new
                      /\ api'[v].pc = "drain" => api'[v].old # api[u].new
      <4>1. api[u].new \in used' \ freed'
        BY <1>2, <2>6, <2>8, <3>1 DEF Custody, New
      <4>2. \A d \in Channels : api[u].new \notin {notify'[d], ctx'[d]}
        BY <1>2, <1>3, <1>5, <1>6, <3>1
      <4>3. QED
        BY <2>7, <3>1, <4>1, <4>2 DEF Custody, New
    <3>2. QED
      BY <2>7, <3>1 DEF New
  <2>10. Replaced'
    BY <1>2, <1>3, <1>5, <2>7 DEF Custody, Replaced
  <2>11. QED
    BY <1>8, <2>6, <2>9, <2>10 DEF Custody
<1>10. CASE ~InCallback(t)
  <2>1. /\ api' = [api EXCEPT ![t] = [pc |-> "drain", chan |-> c, old |-> o]]
        /\ UNCHANGED <<freed, owed>>
    BY <1>10 DEF SetNotifySwap, c, o
  <2>2. /\ api'[t] = [pc |-> "drain", chan |-> c, old |-> o]
        /\ \A u \in Threads : u # t => api'[u] = api[u]
    BY <2>1 DEF TypeOK
  <2>3. New'
    <3>1. ASSUME NEW u \in Threads, u # t, api[u].pc = "swap",
                 api[u].new # NoCb
          PROVE  /\ \A d \in Channels : api[u].new \notin {notify'[d], ctx'[d]}
                 /\ api[u].new # o
      BY <1>1, <1>2, <1>3, <1>5, <1>6, <3>1 DEF o
    <3>2. QED
      BY <1>2, <2>1, <2>2, <3>1 DEF Custody, New
  <2>4. Replaced'
    <3>1. o # NoCb => /\ o \in used
                      /\ \A d \in Channels : notify'[d] # o /\ (ctx[d] = o => d = c)
      BY <1>1, <1>3, <1>4, <1>5 DEF o
    <3>2. ASSUME NEW u \in Threads, u # t, api[u].pc = "drain",
                 api[u].old # NoCb
          PROVE  \A d \in Channels : notify'[d] # api[u].old
      BY <1>3, <1>5, <3>2 DEF Custody, Replaced
    <3>3. QED
      BY <1>2, <2>2, <3>1, <3>2 DEF Custody, Replaced
  <2>5. Released'
    <3>1. ASSUME NEW d \in Channels, notify'[d] \in freed \cup owed[d]
          PROVE  Finished(d)
      BY <1>3, <1>5, <1>7, <3>1 DEF Custody, Released
    <3>2. \A d \in Channels : notify'[d] \in used \cup {NoCb}
      BY <1>3, <1>5 DEF Custody, Released
    <3>3. QED
      BY <1>2, <2>1, <3>1, <3>2 DEF Custody, Released, Finished
  <2>6. ContextOutlivesCallback'
    BY <1>2, <2>1 DEF Custody, ContextOutlivesCallback
  <2>7. QED
    BY <1>8, <2>3, <2>4, <2>5, <2>6 DEF Custody
<1>11. QED
  BY <1>9, <1>10

LEMMA CallCustody ==
    ASSUME Disciplined, TypeOK, Entitled, Closing, Custody,
           NEW t \in Threads, LibraryCall(t)
    PROVE  Custody'
<1>0. /\ UNCHANGED <<rxpc, left, ctx>>
      /\ \A u \in Threads : u # t => api'[u] = api[u]
  BY CallEffect
<1>1. ASSUME NEW c \in Channels, NEW x \in Contexts \cup {NoCb},
             SetNotifyLookup(t, c, x)
      PROVE  Custody'
  <2>1. /\ api'[t] = [pc |-> "swap", chan |-> c, new |-> x]
        /\ x \notin used /\ used' = used \cup ({x} \ {NoCb})
        /\ UNCHANGED <<running, notify, freed, owed>>
    BY <1>1 DEF SetNotifyLookup, tableVars, TypeOK
  <2>2. Single' /\ ContextOutlivesCallback'
    BY <1>0, <2>1 DEF Custody, Single, ContextOutlivesCallback
  <2>3. Released'
    BY <1>0, <2>1 DEF Custody, Released, Finished
  <2>4. New'
    <3>1. x # NoCb => /\ x \in used' \ freed
                      /\ \A d \in Channels : x \notin {notify[d], ctx[d]}
                      /\ \A u \in Threads :
                           /\ api[u].pc = "swap" => api[u].new # x
                           /\ api[u].pc = "drain" => api[u].old # x
      BY <2>1 DEF Custody, New, Replaced, Released
    <3>2. QED
      BY <1>0, <2>1, <3>1 DEF Custody, New
  <2>5. Replaced'
    BY <1>0, <2>1 DEF Custody, Replaced
  <2>6. QED
    BY <2>2, <2>3, <2>4, <2>5 DEF Custody
<1>2. CASE SetNotifySwap(t)
  BY <1>2, SwapCustody
<1>3. CASE SetNotifyDrain(t)
  <2> DEFINE x == api[t].old
  <2>1. /\ api[t].pc = "drain" /\ api[t].chan \in Channels
        /\ x \in Contexts \cup {NoCb}
        /\ ~CbActive(api[t].chan)
        /\ Retire(t, x) /\ api'[t].pc = "idle"
        /\ UNCHANGED <<notify, running, used>>
    BY <1>3, ApiOf DEF SetNotifyDrain, tableVars, TypeOK, NoApi
  <2>2. x # NoCb => /\ x \in used
                    /\ \A d \in Channels : notify[d] # x
                    /\ \A d \in Channels : ctx[d] # x
    BY <2>1 DEF Custody, Replaced, CbActive, TypeOK
  <2>3. \A u \in Threads : api[u].pc = "swap" /\ api[u].new # NoCb =>
                             api[u].new # x
    BY <2>1 DEF Custody, New
  <2> HIDE DEF x
  <2>4. /\ Released' /\ ContextOutlivesCallback'
        /\ freed' \subseteq freed \cup ({x} \ {NoCb})
    BY <1>0, <2>1, <2>2, RetireSafe
  <2>5. Single' /\ New' /\ Replaced'
    BY <1>0, <2>1, <2>3, <2>4, PendingKept
  <2>6. QED
    BY <2>4, <2>5 DEF Custody
<1>4. ASSUME NEW c \in Channels, CloseRemove(t, c), c \notin conns
      PROVE  Custody'
  <2>1. CloseReturn(t, c) /\ UNCHANGED <<notify, running, used>>
    BY <1>4 DEF CloseRemove
  <2>2. QED
    BY <1>4, <2>1, CloseCustody DEF Returning
<1>5. CASE CloseTake(t) /\ (~joinable[api[t].chan] \/ t = api[t].chan)
  <2>1. /\ api[t].chan \in Channels
        /\ CloseReturn(t, api[t].chan) /\ UNCHANGED <<notify, running, used>>
    BY <1>5, ApiOf DEF CloseTake, CloserPcs
  <2>2. QED
    BY <1>5, <2>1, CloseCustody DEF Returning
<1>6. CASE CloseJoin(t)
  <2>1. /\ api[t].chan \in Channels
        /\ CloseReturn(t, api[t].chan) /\ UNCHANGED <<notify, running, used>>
    BY <1>6, ApiOf DEF CloseJoin, CloserPcs, tableVars
  <2>2. QED
    BY <1>6, <2>1, CloseCustody DEF Returning
<1>7. ASSUME \/ \E c \in Channels : CloseRemove(t, c) /\ c \in conns
             \/ CloseStop(t)
             \/ CloseTake(t) /\ joinable[api[t].chan] /\ t # api[t].chan
      PROVE  Custody'
  <2>1. api'[t].pc \notin {"swap", "drain"}
    <3>1. CASE \E c \in Channels : CloseRemove(t, c) /\ c \in conns
      BY <3>1 DEF CloseRemove, TypeOK
    <3>2. QED
      BY <1>7, <3>1, CloserStep
  <2>2. /\ UNCHANGED <<notify, used, freed, owed>>
        /\ \A c \in Channels : running'[c] => running[c]
    BY <1>7 DEF CloseRemove, CloseStop, CloseTake, histVars, TypeOK
  <2>3. Single' /\ New' /\ Replaced'
    BY <1>0, <2>1, <2>2, PendingKept
  <2>4. Released'
    BY <1>0, <2>2 DEF Custody, Released, Finished
  <2>5. ContextOutlivesCallback'
    BY <1>0, <2>2 DEF Custody, ContextOutlivesCallback
  <2>6. QED
    BY <2>3, <2>4, <2>5 DEF Custody
<1>8. QED
  BY <1>1, <1>2, <1>3, <1>4, <1>5, <1>6, <1>7 DEF LibraryCall

-----------------------------------------------------------------------------
IInv == TypeOK /\ Entitled /\ Closing /\ Custody

LEMMA IInvInit == Init => IInv
<1>1. Init => Entitled /\ Closing
  BY DEF Init, Entitled, Closing, NoApi, CloserPcs
<1>2. QED
  BY <1>1, GateTypeInit, CustodyInit DEF IInv

LEMMA IInvStep ==
    ASSUME Disciplined PROVE IInv /\ [Next]_vars => IInv'
<1> SUFFICES ASSUME IInv, [Next]_vars PROVE IInv'
  OBVIOUS
<1>1. TypeOK' /\ Entitled' /\ Closing'
  BY GateTypeStep, EntitledStep, ClosingStep DEF IInv
<1>2. Custody'
  <2>1. CASE UNCHANGED vars
    BY <2>1 DEF vars, IInv, Custody, Single, New, Replaced, Released, Finished,
                ContextOutlivesCallback
  <2>2. QED
    BY <2>1, RxCustody, CallCustody DEF Next, IInv
<1>3. QED
  BY <1>1, <1>2 DEF IInv

\* A callback never runs with a context that was freed after canSetNotify or
\* canClose had returned, whether the RX thread was in the middle of a callback,
\* had just taken cb_active, or was between two frames.
THEOREM ContextOutlivesCallbackCorrect ==
    ASSUME Disciplined PROVE Spec => []ContextOutlivesCallback
<1>1. IInv /\ [Next]_vars => IInv'
  BY IInvStep
<1>2. IInv => ContextOutlivesCallback
  BY DEF IInv, Custody
<1>3. QED
  BY <1>1, <1>2, IInvInit, PTL DEF Spec

\* When canClose has returned, the RX thread of the channel starts no callback
\* any more: it has been joined, or canClose was called from its last one.
THEOREM NoCallbackAfterCloseCorrect ==
    ASSUME Disciplined PROVE Spec => NoCallbackAfterClose
<1>1. IInv /\ [Next]_vars => IInv'
  BY IInvStep
<1>2. IInv /\ [Next]_vars =>
        [\A c \in closed : rxpc'[c] = "calling" => rxpc[c] = "calling"]_vars
  <2> SUFFICES ASSUME IInv, [Next]_vars, NEW c \in closed, rxpc'[c] = "calling"
               PROVE  rxpc[c] = "calling"
    OBVIOUS
  <2>1. c \in Channels /\ Finished(c)
    BY DEF IInv, Closing, TypeOK
  <2>2. CASE UNCHANGED vars
    BY <2>2 DEF vars
  <2>3. ASSUME NEW t \in Threads, LibraryCall(t) PROVE rxpc[c] = "calling"
    BY <2>3, CallEffect DEF IInv
  <2>4. ASSUME NEW d \in Channels, RxThread(d) PROVE rxpc[c] = "calling"
    <3>1. TypeOK /\ TypeOK' /\ RxEffect(d)
      BY <2>4, RxStep DEF IInv
    <3>2. CASE c # d
      BY <2>1, <3>1, <3>2 DEF RxEffect
    <3>3. CASE c = d
      <4>1. ctx'[c] # NoCb
        BY <2>1, <3>1 DEF TypeOK
      <4>2. rxpc[c] = "gated"
        BY <3>1, <3>3, <4>1 DEF RxEffect
      <4>3. QED
        BY <2>1, <4>2 DEF Finished
    <3>4. QED
      BY <3>2, <3>3
  <2>5. QED
    BY <2>2, <2>3, <2>4 DEF Next
<1>3. QED
  BY <1>1, <1>2, IInvInit, PTL DEF Spec, NoCallbackAfterClose

=============================================================================
