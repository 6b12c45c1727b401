\* An agent that resumes with since=ID.
CONSTANTS
    h1 = h1
    h2 = h2
    agent = agent
    Hosts = {h1, h2}
    Clients = {agent}
    Sees <- SeesOne
    NoSince = NoSince
    Cap = 3
    Buf = 2
    Limit = 3
    MaxID = 4
SPECIFICATION FairSpec
INVARIANTS
    CatchesUp
