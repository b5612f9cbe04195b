\* An Agent: two hosts of which one may fail, and a batch of two stages: two parallel
\* calls that must not be replayed, of which one can be cancelled, then a safe call
\* that suspends for an approval.
\* A Program: two calls that must not be repeated, one of which may fail and one of
\* which needs an approval, and two workers of which one may fail.
\* Publication: a subscriber with a queue of one event, three events.
CONSTANTS
    h1 = h1  h2 = h2
    Calls = 3
    ParallelSafe = {1, 2}
    Gated = {3}
    Never = {1, 2}
    Cancellable = {1}
    Outcomes <- AnyOutcome
    Resolutions = {"Succeeded", "Retry"}
    Hosts = {h1, h2}
    NoHost = NoHost
    Mortal = {h1}
    MaxFaults = 1
    OperatorRetries = TRUE
    o1 = o1  o2 = o2  w1 = w1  w2 = w2
    ProgramOp = {o1, o2}
    NoOp = NoOp
    Idempotent = {}
    Approval = {o2}
    Failing = {o1}
    Decisions = {"succeeded", "reserved"}
    Concurrency = 2
    Worker = {w1, w2}
    NoWorker = NoWorker
    MortalWorker = {w1}
    MaxProgramFaults = 1
    f1 = f1
    Follower = {f1}
    Capacity = 1
    MaxEvents = 3
    MaxBatch = 2
    MaxViewFaults = 1
SPECIFICATION Spec
CHECK_DEADLOCK FALSE
INVARIANTS OpsTypeOK SideEffectOnce UnknownNeedsResolution BatchIsFollowed
    PartsTypeOK ProgramEffects SlotsAccounted FollowedInOrder
PROPERTIES OutcomesAreFinal EveryRunSettles CancellationsAreAcknowledged
    SubscribersCatchUp
