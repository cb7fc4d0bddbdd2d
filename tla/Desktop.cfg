SPECIFICATION Spec
CONSTANTS
    Relays = {r1, r2}
    Peer = peer
    DefaultRoute = default
    Tunnels = {home, work}
    NoTunnel = NoTunnel
    MaxLaunches = 2
INVARIANTS
    RoutesRemoved
    OneTunnel
PROPERTIES
    SignalBringsDown
    LateSignalEnds
    ExitNoticed
CHECK_DEADLOCK FALSE
