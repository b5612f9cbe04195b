\* Small instances of five components.  Schedules: two activations, two schedules,
\* three occurrences, one fault.  SessionQueue: three inputs for a queue of two and
\* a prepared Run.  Awaits: three waits, one message, one event, a batch of one
\* timeout.  FanOuts: a group of two with a nested group of two, capacity for one
\* Agent.  ExternalChildren: two placements, one permit, a reconciler of each
\* partition, one fault.
CONSTANTS
    Schedule = {schedule1, schedule2}
    Activations = {activation1, activation2}
    Nobody = Nobody
    Gone = Gone
    MaxOccurrence = 3
    MaxScheduleFaults = 1

    Input = {input1, input2, input3}
    Started = {started1}
    Prepared = {started1}
    NoRun = NoRun
    QueueLimit = 2
    MaxStops = 2

    family1 = family1  family2 = family2
    call1 = call1  call2 = call2  call3 = call3
    event1 = event1  message1 = message1
    FamilyRun = {family1, family2}
    AwaitCall = {call1, call2, call3}
    CallOf <- CallsOf
    Selector <- Selectors
    Event = {event1}
    Inbound = {message1}
    InboundTo <- Addressee
    Scheduler = {scheduler1}
    TimeoutBatch = 1
    MaxAwaitFaults = 1

    root1 = root1  member1 = member1  member2 = member2
    nested1 = nested1  nested2 = nested2  child1 = child1
    group1 = group1  group2 = group2
    Agent = {root1, member1, member2, nested1, nested2, child1}
    RootAgent = root1
    FamilyOrder <- Order
    AgentParent <- Parents
    Group = {group1, group2}
    MembersOf <- Members
    Width <- Widths
    JoinOf <- Joins
    Required <- Quorums
    RemainderOf <- Remainders
    Agents = 1
    MaxTreeFaults = 2

    placement1 = placement1  placement2 = placement2
    reconciler1 = reconciler1  reconciler2 = reconciler2
    Placement = {placement1, placement2}
    PlacementOrder <- PlacementIds
    Reconciler = {reconciler1, reconciler2}
    ForParent = {reconciler1}
    Recalled = {placement1}
    Permits = 1
    MaxExternalFaults = 1
SPECIFICATION Spec
CHECK_DEADLOCK FALSE
INVARIANTS
    ComponentsTypeOK
    AdmittedInOrder
    InputInOnePlace
    WaitsAreServed
    GroupsAgree
    PartitionsAgree
PROPERTIES
    WorkMovesOn
    FamiliesSettleDown
    PlacementsSettle
