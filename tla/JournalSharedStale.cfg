CONSTANTS
    h1 = h1  h2 = h2  f1 = f1  f2 = f2
    c1 = c1  c2 = c2  i1 = i1  i2 = i2
    Hosts = {h1}
    Fibers = {f1, f2}
    HostOf <- OneHost
    Ids = {c1, c2}
    Inputs = {i1, i2}
    Commands <- PlainCommands
    ReadHead = ReadHead
    Size <- UnitSize
    SnapshotEvery = 1
    MaxReplayBytes = 3
    MaxConflictRetries = 1
    MaxInFlight = 0
SPECIFICATION Spec
INVARIANT LoadCoversListing
