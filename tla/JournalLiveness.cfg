\* Two hosts that publish snapshots as the bytes of their commits demand.
CONSTANTS
    h1 = h1  h2 = h2  f1 = f1  f2 = f2
    c1 = c1  c2 = c2  i1 = i1  i2 = i2
    Hosts = {h1, h2}
    Fibers = {h1, h2}
    HostOf <- OwnHost
    Ids = {c1, c2}
    Inputs = {i1, i2}
    Commands <- PlainCommands
    ReadHead = ReadHead
    Size <- MixedSize
    SnapshotEvery = 2
    MaxReplayBytes = 2
    MaxConflictRetries = 1
    MaxInFlight = 0
SPECIFICATION FairSpec
PROPERTY EveryCallReturns
INVARIANT RecoveryBytesBounded
