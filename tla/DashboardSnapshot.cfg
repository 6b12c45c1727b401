\* A reload in the middle of the snapshot.
CONSTANTS
    a = a
    b = b
    viewer = viewer
    Hosts = {a, b}
    Viewers = {viewer}
    Configs <- Reloads
    Buf = 1
    MaxVersion = 1
SPECIFICATION FairSpec
INVARIANTS
    SnapshotIsComplete
