SPECIFICATION Spec
CONSTANTS
    U16_MAX = 3
    U32_MAX = 6
    I32_MAX = 4
    LOCALHOST = "localhost"
    DefaultPort = 2
    DefaultConnectTimeout = 1
    DefaultAcceptTimeout = 2
    Addrs <- MCAddrs
    V6 = {"c6"}
    Worlds <- MCWorlds
    EditedWorlds <- MCEdited
    BannerParts = 2
    MaxClients = 3
INVARIANTS
    TypeOK
    LayeredByKey
    InboundRestricted
    OpenMeansTunnel
    OpenBounded
