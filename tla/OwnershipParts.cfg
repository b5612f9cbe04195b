\* Two mortal hosts with the two roots of a host Session; another host with those two
\* roots, of which the second may have children.
CONSTANTS
    a1 = a1  a2 = a2  a3 = a3  w1 = w1  w2 = w2  w3 = w3
    r1 = r1  r2 = r2  c1 = c1  c2 = c2
    main = main  side = side
    None = None
    Activations = {a1, a2, a3}
    Workers = {w1, w2, w3}
    WorkerOf <- PartWorkers
    Runs = {r1, r2, c1, c2}
    Sessions = {main, side}
    SessionOf <- PartSessions
    Parent <- PartParents
    Hosted = {main}
    MaxInitialChildren = 2
    MaxFence <- PartFences
    Mortal = {a1, a2}
    ReleaseMayFail = TRUE
SPECIFICATION PartsSpec
SYMMETRY Symmetry
CHECK_DEADLOCK FALSE
INVARIANTS TypeOK SessionsRecover LanesServed NoLostWakeup FamiliesSettle
