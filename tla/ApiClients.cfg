SPECIFICATION Spec
CONSTANTS
    Clients = {c1, c2}
    Requests = {r1, r2}
    UpdateAsks <- OpenOrClose
    DeriveAsks <- OpenOnly
    MaxId = 2
    MaxHandles = 2
    None = None
SYMMETRY Symmetry
INVARIANTS CountsExact OpenStaysLoaded HostChangesKept
PROPERTIES KeptOnlyByOthers
