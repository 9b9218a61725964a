SPECIFICATION FairSpec
CONSTANTS
    Clients = {a}
    Invitations = {i, p}
    Permanent = {p}
    Cids = {c}
    Keys = {k1, k2}
    Service = service
    NoKey = NoKey
    NoRequest = NoRequest
    MaxAttempts = 2
    MaxTopics = 3
INVARIANTS SessionNeedsInvitation OneAcceptance
PROPERTIES EveryConnectionKeepsContract HandshakeResolves
CHECK_DEADLOCK FALSE
