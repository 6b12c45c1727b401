\* Safety of the poll loop while cancelled workers still drain.
CONSTANTS
    a = a
    b = b
    uptime = uptime
    s1 = s1
    s2 = s2
    Hosts <- OverlapHosts
    Slots <- BothSlots
    NoSlot = NoSlot
    Checks = {uptime}
    Cycle = 1
    Configs <- OverlapConfigs
SYMMETRY SlotSymmetry
SPECIFICATION Spec
INVARIANTS
    NoHostUnmonitored
    OneLiveWorker
    AuditTrail
    DownHasNoSshData
PROPERTIES
    ImplementsPolling
