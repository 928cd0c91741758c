SPECIFICATION Spec
CONSTANTS
    s1 = s1
    s2 = s2
    s3 = s3
    Conns = {c1, c2, c3}
    Servers = {s1, s2, s3}
    Rooms = {"room", "other"}
    RoomOf <- TwoRooms
    Requests = {r1, r2}
    MayOverlap = FALSE
    Nobody = Nobody
SYMMETRY Interchangeable
CHECK_DEADLOCK FALSE
INVARIANTS
    TypeOK
    SeatKnownUnlessOverlap
PROPERTIES
    LinkMovesOn
