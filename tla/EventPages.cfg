\* An agent that pages through the log, over lost answers and restarts.
CONSTANTS
    h1 = h1
    h2 = h2
    agent = agent
    Hosts = {h1, h2}
    Clients = {agent}
    Sees <- SeesOne
    Cap = 2
    DefaultLimit = 2
    MaxLimit = 2
    Limits = {0, 1, 3}
    MaxEvents = 5
    MaxLives = 1
SPECIFICATION FairSpec
INVARIANTS
    NothingSkipped
    AheadMeansRestart
PROPERTIES
    ImplementsTail
    PollerCatchesUp
