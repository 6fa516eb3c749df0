SPECIFICATION LiveSpec
CONSTANTS
    k1 = k1
    k2 = k2
    k3 = k3
    boot = boot
    added = added
    m1 = m1
    m2 = m2
    root = root
    user = user
    Absent = Absent
    ManagedKeys = {k1, k2, k3}
    ForeignKeys <- MCForeignKeys
    Addresses = {2, 3, 4}
    ForeignNets <- MCForeignNets
    BootPeers = {boot}
    MaxPeers = 2
    Clients = {m1, m2}
    Payloads <- MCPayloads
    Backlog = 2
    MaxRequests = 6
    Faults <- Lossy
    Users = {root, user}
    Admins = {root}
    Quotas = {2}
    Pool = {2, 3}
    Reserved = {}
    MaxOperations = 3
INVARIANTS LiveTypeOK CommitIsLive DistinctDevices
CHECK_DEADLOCK FALSE
SYMMETRY MCSymmetry
