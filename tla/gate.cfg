SPECIFICATION Spec
CONSTANTS
    r1 = r1
    r2 = r2
    r3 = r3
    a1 = a1
    a2 = a2
    proxy = proxy
    Requests = {r1, r2, r3}
    Client <- MCClient
    Peer <- MCPeer
    Forwarded <- MCForwarded
    Proxies = {proxy}
    Addresses = {a1, a2, proxy}
    Nobody = Nobody
    Limit = 1
    Window = 1
    MaxIps = 2
    Period = 2
    MaxTime = 4
    MaxSecrets = 2
INVARIANTS
    TypeOK
    GuessesBounded
    KeyLives
CHECK_DEADLOCK FALSE
