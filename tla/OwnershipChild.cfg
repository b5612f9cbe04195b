\* A root of a Session without a host Session, its child, and two hosts configured with
\* the same worker identity, of which one may fail and the other serves.
CONSTANTS
    a1 = a1  a2 = a2  w1 = w1  r1 = r1  r2 = r2  r3 = r3  c1 = c1
    main = main  side = side
    None = None
    Activations = {a1, a2}
    Workers = {w1}
    WorkerOf <- OneWorker
    Runs = {r1, c1}
    Sessions = {main, side}
    SessionOf <- ChildSessions
    Parent <- ChildParents
    Hosted = {}
    MaxInitialChildren = 1
    MaxFence <- BriefFences
    Mortal = {a1}
    ReleaseMayFail = FALSE
SPECIFICATION FairSpec
CHECK_DEADLOCK FALSE
INVARIANT SingleExecution
PROPERTIES AuthorityIsKept WorkIsTaken
