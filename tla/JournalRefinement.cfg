\* Two hosts with one caller each.
CONSTANTS
    h1 = h1  h2 = h2  f1 = f1  f2 = f2
    c1 = c1  c2 = c2  i1 = i1  i2 = i2
    Hosts = {h1, h2}
    Fibers = {h1, h2}
    HostOf <- OwnHost
    Ids = {c1, c2}
    Inputs = {i1}
    Commands <- PlainCommands
    ReadHead = ReadHead
    Size <- UnitSize
    SnapshotEvery = 2
    MaxReplayBytes = 3
    MaxConflictRetries = 0
    MaxInFlight = 1
SYMMETRY Symmetry
SPECIFICATION Spec
PROPERTY ImplementsCommandLog
