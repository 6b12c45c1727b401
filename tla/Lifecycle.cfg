\* Two servers and a tool that start, crash and end at any time.
CONSTANTS
    s1 = s1
    s2 = s2
    tool = tool
    k1 = k1
    k2 = k2
    Servers = {s1, s2}
    Tools = {tool}
    Keys = {k1, k2}
    Absent = Absent
    Partial = Partial
SPECIFICATION FairSpec
INVARIANTS
    TypeOK
    KeysSurvive
    LoneServerIsReachable
PROPERTIES
    RealFileKept
    EndsTogether
