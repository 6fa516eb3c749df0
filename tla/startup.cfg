SPECIFICATION FairStartSpec
CONSTANTS
    web = web
    c1 = c1
    k1 = k1
    k2 = k2
    WebP = web
    Commands = {c1}
    Keys = {k1, k2}
    None = None
    MaxKills = 2
    MaxBoots = 1
INVARIANTS StartTypeOK PreparedAlike KeyIsCurrent ServingIsLive
PROPERTIES WebComesUp
CHECK_DEADLOCK FALSE
