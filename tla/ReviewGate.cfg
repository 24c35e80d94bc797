SPECIFICATION Spec
CONSTANTS
    u = u
    v = v
    p = p
    q = q
    Work = {u, v}
    Path = {p, q}
    Tier <- Tiers
    Scenes <- Stories
PROPERTIES
    LandedIsSeen
    ReviewedIsKept
    LastWordHolds
    NoPlanEscapes
SYMMETRY Paths
CHECK_DEADLOCK FALSE
