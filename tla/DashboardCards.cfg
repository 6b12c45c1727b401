\* Cards of a browser under updates and reloads.
CONSTANTS
    a = a
    b = b
    viewer = viewer
    Hosts = {a, b}
    Viewers = {viewer}
    Configs <- Reloads
    Buf = 1
    MaxVersion = 2
SPECIFICATION FairSpec
INVARIANTS
    SubscribersAreOpen
    CardsCatchUp
    QuietSnapshotIsComplete
PROPERTIES
    CardSettles
    GoneHandlerEnds
