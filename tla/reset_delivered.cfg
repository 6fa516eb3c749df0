SPECIFICATION FairResetSpec
CONSTANTS
    d1 = d1
    t1 = t1
    t2 = t2
    None = None
    Devices = {d1}
    Tabs = {t1, t2}
    Requests <- MCTwoRequests
    Width = 2
    MaxRoutes = 2
    Deliveries = {"download", "other"}
    MaxKey = 3
    MaxPolicy = 3
    Faults = {"worker_exit"}
INVARIANTS OnlyDeliveredKeys
PROPERTIES DownloadsResolve
CHECK_DEADLOCK FALSE
