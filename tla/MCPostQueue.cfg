SPECIFICATION Spec
CONSTANTS
    None = None
    m1 = m1  m2 = m2  h1 = h1  k1 = k1  k2 = k2  k3 = k3
    DayLength = 2
    Offsets = {0}
    Offset <- Utc
    MaxDays = 2
    Posts = {1, 2}
    Media = {m1, m2}
    Channels = {h1}
    Cadence <- EveryTwo
    Keys = {k1, k2, k3}
    Menu <- CrossingMenu
    Conns = {c1, c2}
    RepeatWindow = 2
    MaxNow = 2
    MaxRevision = 2
    MaxSwitches = 1
SYMMETRY Symmetric
CHECK_DEADLOCK FALSE
INVARIANTS
    SlotsDisjoint
    NoSilentRepeat
    OncePerKey
