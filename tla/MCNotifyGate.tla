---------------------------- MODULE MCNotifyGate ----------------------------
(* Instances of NotifyGate for TLC. *)
EXTENDS NotifyGate, TLC

CONSTANTS a, b, c1, c2

OneChannel  == {c1}
TwoChannels == {c1, c2}
TwoApps     == {a, b}

\* The callback closes its own channel.
CallbackCloses == (a :> {<<"set_notify", c1>>})
                  @@ (b :> {<<"set_notify", c1>>})
                  @@ (c1 :> {<<"set_notify", c1>>, <<"close", c1>>})

\* The callback of one channel closes another channel.
CloseChain == (a :> {<<"set_notify", c1>>, <<"set_notify", c2>>})
              @@ (b :> {<<"close", c1>>})
              @@ (c1 :> {<<"close", c2>>}) @@ (c2 :> {<<"set_notify", c2>>})

\* The callback of one channel disarms another channel.
DisarmOther == (a :> {<<"set_notify", c1>>, <<"set_notify", c2>>}) @@ (b :> {})
               @@ (c1 :> {<<"set_notify", c2>>}) @@ (c2 :> {})

SelfClose   == {CallbackCloses}
SelfOrChain == {CallbackCloses @@ (c2 :> {}), CloseChain}
Disarm      == {DisarmOther}
=============================================================================
