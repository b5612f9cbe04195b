\* Three Runs are started beside the queue and held; one message.
CONSTANTS
    Input = {input1}
    Started = {started1, started2, started3}
    Prepared = {started1, started2, started3}
    NoRun = NoRun
    QueueLimit = 1
    MaxStops = 0
SPECIFICATION QueueSpec
CHECK_DEADLOCK FALSE
INVARIANTS InputInOnePlace
