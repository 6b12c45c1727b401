\* Liveness of the workers of one host that reloads add and drop.
CONSTANTS
    a = a
    b = b
    uptime = uptime
    s1 = s1
    s2 = s2
    Hosts = {a}
    Slots <- BothSlots
    NoSlot = NoSlot
    Checks = {uptime}
    Cycle = 1
    Configs <- ChurnConfigs
SPECIFICATION FairSpec
PROPERTIES
    PolledForeverOrHung
    CancelledWorkerLeaves
