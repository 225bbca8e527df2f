SPECIFICATION FairTransactionSpec
CONSTANTS
    c1 = c1
    c2 = c2
    c3 = c3
    r1 = r1
    r2 = r2
    o1 = o1
    o2 = o2
    s1 = s1
    s2 = s2
    app = app
    m1 = m1
    m2 = m2
    k1 = k1
    k2 = k2
    v1 = v1
    v2 = v2
    None = None
    Call = {c1, c2, c3}
    Replica = {r1, r2}
    ReplicaOf <- SentTo
    Operation = {o1, o2}
    Session = {s1, s2}
    Application = {app}
    AppOf <- OneApplication
    MutationId = {m1, m2}
    StateKey = {k1, k2}
    Value = {v1, v2}
    Offered <- SomeCalls
    LeaseSeconds = 1
    MaxClock = 1
    MaxCrashes = 1
PROPERTIES
    ImplementsSerial
    EveryCallAnswered
CHECK_DEADLOCK FALSE
