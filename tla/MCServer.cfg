SPECIFICATION ServerSpec
CONSTANTS
    Client = {p1, p2}
    Key = {record, lease}
    Value = {va, vb}
    Lasting = {record}
    Requests <- Calls
    MaxCrashes = 1
    p1 = p1
    p2 = p2
    record = record
    lease = lease
    NoKey = NoKey
    NoClient = NoClient
    None = None
    Unread = Unread
    w1 = w1
    w2 = w2
    w3 = w3
    c1 = c1
    c2 = c2
    c3 = c3
    e1 = e1
    h1 = h1
    h2 = h2
    s1 = s1
    va = va
    vb = vb
    vd = vd
    k1 = k1
    k2 = k2
    r1 = r1
    r2 = r2
    drop = drop
    same = same
    junk = junk
PROPERTIES
    ImplementsAtomicStore RecordsKept AnswersTrue Answered
CHECK_DEADLOCK FALSE
