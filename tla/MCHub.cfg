\* Two streams of one slug and one of another, two Sends, channels of one event.
SPECIFICATION LiveSpec
CONSTANTS
    s1 = s1
    s2 = s2
    s3 = s3
    p1 = p1
    p2 = p2
    g = g
    h = h
    Nobody = Nobody
    Slugs = {g, h}
    Streams = {s1, s2, s3}
    SlugOf <- TwoAndOne
    Sends = {p1, p2}
    ChanCap = 1
CHECK_DEADLOCK FALSE
INVARIANTS
    TypeOK
    NoSendOnClosed
    ListedWhileOpen
PROPERTIES
    SendsAsOne
    NobodyWaitsForever
