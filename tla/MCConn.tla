------------------------------- MODULE MCConn -------------------------------
(* Instances of Conn for TLC. *)
EXTENDS Conn, TLC

CONSTANTS w1, w2, r, c     \* two writers, a reader, the thread that closes

MCThreads == {w1, w2, r, c}

Nothing == [t \in MCThreads |-> {}]

\* Everybody at once.
AllCalls == [Nothing EXCEPT ![w1] = {"write"}, ![w2] = {"write"},
                            ![r] = {"read_wait"}, ![c] = {"close"}]

\* An application that reads and writes, and never closes.
DuplexCalls == [Nothing EXCEPT ![w1] = {"write"}, ![r] = {"read_wait"}]
=============================================================================
