----------------------------- MODULE MCDataPath -----------------------------
(* An instance of DataPath for TLC. *)
EXTENDS DataPath

\* Above 11 bits, and negative: above 29 bits.
MCIds == {2053, -1}

\* Nothing, between classic and FD lengths, at an FD length, too much.
MCDlcs == {0, 9, 32, 65}

MCFlags == {{"BRS"}, {"RTR", "EXT"}, {"FDF", "EXT", "BRS"},
            {"FDF", "RTR", "ESI"}}

\* A payload in which every byte is different, and no payload.
MCMsgs == {[i \in 1..64 |-> i + 10], NullMsg}

MCPeerIds ==
    {[eff |-> FALSE, rtr |-> FALSE, err |-> TRUE, id |-> 2053],
     [eff |-> TRUE, rtr |-> TRUE, err |-> FALSE, id |-> 536870911]}

\* Around every limit, with and without the FD bit.
MCPeerLens == {8, 9, 127, 128, 128 + 64, 128 + 65}
=============================================================================
