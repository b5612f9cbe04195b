\* One host; one root.
CONSTANTS
    a1 = a1  a2 = a2  w1 = w1  r1 = r1  r2 = r2  r3 = r3  c1 = c1
    main = main  side = side
    None = None
    Activations = {a1}
    Workers = {w1}
    WorkerOf <- OneWorker
    Runs = {r1}
    Sessions = {main}
    SessionOf <- RootSessions
    Parent <- RootParents
    Hosted = {main}
    MaxInitialChildren = 0
    MaxFence <- RootFences
    Mortal = {}
    ReleaseMayFail = FALSE
SPECIFICATION FairSpec
CHECK_DEADLOCK FALSE
PROPERTY CancellationSettles
