SPECIFICATION FairSpec
CONSTANTS
    Client = {c1, c2}
    MaxMessages = 2
    MaxSockets = 2
CHECK_DEADLOCK FALSE
INVARIANTS TypeOK
PROPERTIES ImplementsLossyFeed HeardWhileConnected HookRecovers
