CONSTANTS
    Procs = {p1, p2, p3}
    Nobody = Nobody
    HasNamespaceGuard = TRUE
    Tamperable = {"guard", "control"}
    MaxReplacements = 1
SPECIFICATION PlatformSpec
SYMMETRY Symmetry
INVARIANTS MutualExclusion NoTaskBesideLeftovers
PROPERTIES ExactMarkerCleared Implements
