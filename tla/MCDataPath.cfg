\* Two frames from a kvasilloni or from any peer, to a classic or an FD channel.
SPECIFICATION Spec
CONSTANTS
    Ids <- MCIds
    Dlcs <- MCDlcs
    Flags <- MCFlags
    Msgs <- MCMsgs
    PeerIds <- MCPeerIds
    PeerLens <- MCPeerLens
    MaxSent = 2
INVARIANTS TypeOK NeedFits LengthClass BufferFits TransportsAgree DatagramAllOrNothing RoundTrip
CHECK_DEADLOCK FALSE
