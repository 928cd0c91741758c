SPECIFICATION FairSpec
CONSTANTS
    c1 = c1
    c2 = c2
    c3 = c3
    p1 = p1
    p2 = p2
    Conns = {c1, c2, c3}
    Proxies = {p1, p2}
    ProxyOf <- ThereAndBack
    Nobody = Nobody
CHECK_DEADLOCK FALSE
PROPERTIES
    EarlierSessionCloses
    OnlyRivalsClose
