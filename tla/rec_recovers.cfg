SPECIFICATION FairSpec
CONSTANTS
    k1 = k1
    k2 = k2
    boot = boot
    added = added
    c1 = c1
    c2 = c2
    Absent = Absent
    ManagedKeys <- MCManagedKeys
    ForeignKeys <- MCForeignKeys
    Addresses = {2, 3, 4}
    ForeignNets <- MCForeignNets
    BootPeers = {boot}
    MaxPeers = 2
    Clients = {c1, c2}
    Payloads <- FewPayloads
    Backlog = 1
    MaxRequests = 3
    Faults <- Recoverable
INVARIANTS AppliedIsLive FilesAgree FailureRestores NoOrphans Ownership
PROPERTIES EveryRequestAnswered
