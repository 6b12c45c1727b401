\* Requests of every kind under edits, signals and reloads.
CONSTANTS
    h = h
    u = u
    t = t
    client = client
    Clients = {client}
    Calls <- Requested
    Configs <- Reloads
    Invalid = Invalid
    None = None
SPECIFICATION FairSpec
INVARIANTS
    TypeOK
    QuietReply
    RightsNeverInvented
    RestartOnlyFieldsHold
PROPERTY ReloadTakesEffect
