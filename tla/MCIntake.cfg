SPECIFICATION Spec
CONSTANTS
    None = None
    Malformed = Malformed
    Off = Off
    Actions = {a1, a2}
    Deliveries = {d1, d2}
    Channels = {c1, c2}
    Admins = {p1}
CHECK_DEADLOCK FALSE
SYMMETRY Alike
INVARIANTS
    AcceptedIsMine
    EarliestFreeSlot
    
PROPERTY
    CapturedChannelEnabled
