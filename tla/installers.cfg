SPECIFICATION StoreSpec
CONSTANTS
    i1 = i1
    i2 = i2
    i3 = i3
    u1 = u1
    u2 = u2
    d1 = d1
    p1 = p1
    Ids = {i1, i2, i3}
    Uploads = {u1, u2}
    Downloads = {d1}
    Packages = {p1}
    None = None
    Faults = {"disk_error", "db_error", "interrupt", "cleanup_error", "crash", "power_loss", "damage"}
INVARIANTS InstallerTypeOK RowsHaveFiles ServedIsVerified NoStrays
SYMMETRY MCSymmetry
CHECK_DEADLOCK FALSE
