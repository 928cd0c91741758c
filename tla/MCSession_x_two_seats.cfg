SPECIFICATION Spec
CONSTANTS
    s1 = s1
    s2 = s2
    s3 = s3
    Conns = {c1}
    Servers = {s1, s2}
    Rooms = {"room"}
    RoomOf <- OneRoom
    Requests = {r1, r2}
    MayOverlap = TRUE
    Nobody = Nobody
SYMMETRY Interchangeable
CHECK_DEADLOCK FALSE
INVARIANTS
    SeatedOnce
