SPECIFICATION FairSpec
CONSTANTS
    Clients = {c1, c2}
    Urls = {u1, u2}
    Ingress = Ingress
    NoURL = NoURL
    Deleted = Deleted
    NoClient = NoClient
    InitialBackoff = 1
    BackoffCap = 2
    Events = {"secrets", "delivery", "break", "refuse", "restart", "settle"}
    Asks = {u1, u2, Ingress, NoURL, Deleted}
INVARIANTS
    TypeOK
    OneTunnel
CHECK_DEADLOCK FALSE
PROPERTIES
    SupersededIsQuiet
    TunnelConverges
