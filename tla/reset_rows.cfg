SPECIFICATION ResetSpec
CONSTANTS
    d1 = d1
    t1 = t1
    t2 = t2
    None = None
    Devices = {d1}
    Tabs = {t1, t2}
    Requests <- MCRequests
    Width = 2
    MaxRoutes = 2
    Deliveries = {"download", "qr", "other"}
    MaxKey = 3
    MaxPolicy = 3
    Faults = {"slow_body", "lost_body", "live_apply", "output_file", "worker_exit"}
INVARIANTS ResetTypeOK PendingIsCurrent DeliveredRoutesAreCurrent RoutesAreAsked
SYMMETRY MCSymmetry
CHECK_DEADLOCK FALSE
