# TLA+ verification of the generalist durable runtime

`packages/generalist` runs agents durably: everything an agent did is a sequence
of commands in a journal kept in an object store, and any host that reads the
journal can continue where another one stopped. This directory models the parts
of the runtime that have to be right for that to work, checks them with TLC on
small instances, and proves what matters most of them with TLAPS. Paths below
are relative to `src/packages/generalist/src/`, those of documents to `src/`.

1. [The system](#1-the-system)
2. [The modules and the code](#2-the-modules-and-the-code)
3. [What the runs check](#3-what-the-runs-check)
4. [Fairness](#4-fairness)
5. [What is proved](#5-what-is-proved)
6. [Disagreements between the code and what is said of it](#6-disagreements)
7. [What is left out](#7-what-is-left-out)
8. [Plan](#8-plan)

## 1. The system

### Components, their state and their operations

| component | state | operations | what makes it correct | module |
|---|---|---|---|---|
| journal (`durability/internal/journal*.ts`) | the store's commit and snapshot objects; per host a verified prefix, a snapshot cursor, caches | `command`: load, evaluate, create the next slot, reconcile, retry; publish snapshots | one history, a command at most once, an acknowledgement means committed, a definite failure means not committed, recovery stays bounded | `Journal` |
| discovery marker, probe (`discovery-marker.ts`, `probe.ts`) | one marker object per namespace | written before the first commit; the store is probed before the first commit of a host | no namespace with commits is undiscoverable | `Journal`, in part |
| object stores (`durability/fs.ts`, `s3.ts`) | objects | create if absent, read, list in order | the contract the journal relies on | the contract in `Journal` |
| activation (`durability/internal/runtime.ts`) | in the canonical state: the lease of every worker; per host the phase of its activation | acquire, reconcile (heartbeat), monitor, retire, finalizer | a dead worker's Runs are released, a live one's are not | `Ownership` |
| claims, scheduler, executor (`runtime/state/store/execution.ts`, `claim.ts`, `runtime/execution/*`) | `ownerId` and `attemptFence` of a Run, the Session's writer and its epoch; per host the fibers that execute | claim, fenced commands, release, sweep of cancelled Runs | one authorised execution, nobody else takes a Run away, what can be executed is | `Ownership`, `Operations` |
| run control (`runtime/state/store/control*`) | status, waits, `cancellationRequested`, pending outcome | suspend, respond/signal/wake, complete, fail, cancel | no lost wakeup, cancellation reaches and settles a family from below | `Ownership`, `Awaits`, `FanOuts` |
| admission and lanes (`runtime/state/store/admission/*`) | a FIFO lane of roots per Session | admitSend, admitStart, admitSpawn, activateRoot, promoteHead | a lane's head has started or waits for its children, nothing settled stays in a lane, nothing queued loses its place | `Ownership`, `SessionQueue` |
| Session store (`runtime/state/session-store.ts`) | conversation entries, writer fence | append, terminal tool results | every tool call is answered once, under the present writer | `Ownership`, in part |
| children (`runtime/state/store/child/*`, `runtime/child/*`) | parent, `children`, the waits of the parent | settle into the parent's wait, finalize a cancelling parent | a settled child always wakes its parent | `Ownership`, `FanOuts` |
| operation ledger and batches (`runtime/state/store/operation/*`, `runtime/operation/*`, `core/durable`, `core/agent/tools`) | operations by key, status, replay policy, the checkpoint of a tool batch | request, start, complete, expire, recover, resolve; authorize, execute and resume a batch | an effect that is not idempotent is started once; unknown outcomes reach an operator | `Operations` |
| steering and waits (`store/steering.ts`, `store/trigger/*`) | inbox of a Run, waits for Runs, events and deadlines | send, read, consume, wake, time out | a message, an event or an ended Run is neither missed nor taken twice | `Awaits` |
| fan-outs, capacity (`store/fan-out/*`, `child/capacity.ts`) | groups, members, slots of a family | admit, promote, join, remainder | a group joins once and in time; families settle | `FanOuts` |
| external children (`runtime/child/external/*`) | a placement in the parent's partition, a root in the receiver's | reserve, deliver, cancel, settle, reconcile | the two partitions agree although no transaction spans them | `ExternalChildren` |
| host Session queue (`store/host-session/*`) | pending inputs, the active Run | submit, message, promote, stop, resume | each input is in one place and promoted in order | `SessionQueue` |
| schedules (`store/trigger/schedule.ts`, `execution/trigger/*`) | next occurrence, claim and its lease | register, claim, fire, advance | every occurrence once and in order | `Schedules` |
| Agent Programs (`store/program*.ts`, `program/*`) | a second ledger, slots and budget of a program | reserve, authorize, start, settle, suspend, resolve | replay gives the recorded results, one effect per operation, no slot lost | `Programs` |
| event publication (`store/events.ts`, `store/event/publications.ts`) | subscriber queues, the host's local projection | install, publish, follow, drop a lagging subscriber | no gap, no repetition after a resume | `Publications` |
| REPL kernels (`repl/*`) | epochs, leases, kernels and their cells | boot, execute, interrupt, restart, close, evict | one live kernel per Session, a fenced kernel does not write | |
| agent loop and model turns, policy, memo, context, compaction | conversation, continuation | turns; pure functions of the conversation | | |
| forks, inspection, projections, host API, server, client, engine, memory, instructions, skills, tasks, hooks, media, sandbox, providers | | | adapters, views and pure functions around the above | |

### How they interact

Every durable change of the runtime is one *command*: a deterministic function
of the canonical state (`RuntimeState`) that the journal evaluates against the
head it loaded and commits with one conditional PUT. Hosts share nothing but the
object store. A command is therefore atomic for everything above the journal,
and everything below it (loads, PUTs, lost answers) is interleaved. This is also
where the modules are cut: `Journal` has commands as opaque transitions and
models what it takes to commit one; the modules above it have the transitions
themselves as atomic actions. The theorem that justifies the cut is the one
`CommandLog` states: what callers see of the journal is an atomic, append-only
log. A command whose PUT lands after its host died is that command followed by
the crash; one whose acknowledgement is lost is the command followed by the
failure of its host, which is what `runtime.ts` makes of it.

Inside a host, fibers share the journal's caches (auxiliary stores and
`lookupReceipt` load outside the activation's lock), a scheduler claims Runs, an
executor runs one fiber per claim, and the activation's monitor interrupts all
of them when the lease is lost. A fiber goes on for a while after its claim was
taken: only fences in the canonical state stop it.

The commands above the journal fall into groups that touch different parts of
`RuntimeState`, which is the second cut. `Ownership` has who may execute a Run
and write its Session; it is the only module in which several Runs, several
hosts and their leases meet. The others take one claim at a time for granted and
refine what happens under it: `Operations` has the effects of one batch,
`Awaits` and `FanOuts` what a Run waits for, `SessionQueue` and `Schedules` how
Runs come about; `Programs` is the same for a Run of a Program, with its own ledger.
`Publications` is what a host makes of committed events. `ExternalChildren` is the one protocol between two partitions,
that is, between two journals.

### What is hard

Two hosts on one slot; a PUT whose answer is lost, or that lands after its host
gave up; caches that several fibers move while each of them is between two
reads; the bound on recovery, which readers enforce and writers must keep;
leases read off clocks that differ; executions that outlive their claims,
including those of an earlier incarnation with the same worker name; settlement,
suspension and cancellation of a family in any order; an effect that took place
while its outcome was not recorded; an answer that arrives before the wait it
answers; a join decided while its parent suspends, executes on another wait or
is cancelled; two partitions that repeat each other's commands; Program code that
runs again from its beginning with concurrent calls in any state; subscribers that
fall behind while the projection they follow is being replaced. `PROJECT.json`
lists them, with the line at which each bites and the property that would catch
it.

## 2. The modules and the code

### CommandLog

The promise: a log of commands; the callers that wait for an answer, with what
each called; and the answers. `Apply` appends a command that is submitted or
unresolved and not yet in the log. A read looks at the log (`Observe`), may look
again (`Forget`), and is answered with the length it saw last, and only with one it
saw during its own call. A command is answered with the receipt the log retains, or
with the conflict of its input; a call may fail for the reasons `Fail` lists, of
which "corruption" is none. `Doubt` is a PUT that failed without saying whether it
will apply: the command stays unresolved, also after its call has ended or its
caller died (`Crash`). Nothing of hosts, slots or snapshots. `Journal!Abstract` maps
the log to the digest of the newest commit, unresolved commands to the late PUTs
whose slot is free, the waiting callers to the fibers that are not idle, and what
was seen to the listing of a load, then to the head it loaded.

### Journal

| variable | code |
|---|---|
| `commits`, `snapshots` | the objects under the commit and snapshot prefixes. A commit is its slot's entry with the history up to it: the digest chain is abstracted to the history it stands for |
| `discoverable` | the discovery marker object |
| `lateCommits`, `lateSnapshots` | PUTs whose caller saw a failure or crashed and that may still be applied |
| `verified`, `verifiedSnapshot` | `verified`, `verifiedSnapshot` of a host (`journal-recovery.ts`): shared by its fibers |
| `pc`, `command`, `known`, `latest`, `snapshot`, `loaded`, `conflicts`, `result` | the frame of a fiber's `command` and `load` |

| action | code |
|---|---|
| `Call` | entry of `command` |
| `ListCommits`, `ListSnapshots`, `Recover`, `ReplayNext`, `FinishLoad` | the steps of `load`, between which other fibers and hosts run |
| `ReturnHead`, `ReturnReceipt` | a read; a command that is already in the loaded history |
| `Prepare` | marker, probe, and the checks before a commit |
| `PublishBoundary` | the snapshot a commit must be preceded by |
| `Refuse` | a command id with another input, or the reducer's refusal |
| `Create`, `Indeterminate` | the conditional PUT: stored, refused by an existing object, failed with or without having been stored |
| `Reconcile`, `Retry` | the read of the attempted slot, and what follows a lost race |
| `Settle`, `SnapshotLands` | the snapshot after a commit and its failure |
| `StoreFails` | any failure of the store on a read |
| `Crash` | the fibers of a host stop; what they had in flight may land later |
| `CommitArrives`, `SnapshotArrives` | it lands |

Abstractions: the reducer is free (any command may be accepted or refused on any
state, as a pure function is not what the journal must get right); evaluation,
which reads nothing shared, is part of the step of the PUT; a LIST is atomic;
slots start at 1; the cache of verified commit bytes is left out, as it holds
immutable objects.

### Ownership

| variable | code |
|---|---|
| `state.workers`, `state.released` | `RuntimeState.workers` with the incarnation of each lease; the leases whose `expiresAt` was set to 0 |
| `state.runs` | `StoredRun`: status, `ownerId`, `attemptFence`, `cancellationRequested`, the open and closed waits of a Run, `children` in order of admission |
| `state.sessions` | `RuntimeSession`: writer, writer epoch; of the conversation only which Runs have unanswered tool calls on the path |
| `state.lanes` | the lane of each Session |
| `host` | what an activation does: idle, acquired, active, closing, dead |
| `fiber` | the claim each execution fiber of a host runs under, with what it loaded at its start |

| action | code |
|---|---|
| `Acquire`, `Reconcile`, `HostFails`, `ReleaseLease`, `Crash` | `acquire`, `reconcile`/`heartbeat`, `monitor`/`retire`, the finalizer of `acquire`; a process that stops. The first three commands release the owners of expired leases |
| `AdmitSend`, `AdmitStart`, `Activate` | `admitSend`; `admitStart` with its initial children, for which the root waits, with a start that is held, and with the lane it deletes (`RetainHostedLane`); `activateRoot` |
| `AdmitChild` | `admitSpawn`, for a parent in any state but a settled one |
| `ClaimExecution` | selection by the scheduler and `claimExecution`; the claim of `reconcileCancellation`, which runs outside the tick lock and may be dropped by `ActiveExecutions.run`; a claim whose acknowledgement is lost |
| `RespondWithToolCalls`, `AppendToolResults` | `commitModelResponse`; `append` of tool results |
| `Suspend`, `Complete`, `Fail` | the commands of the same names, with everything they settle |
| `ReleaseExecution` | `settleAndRelease`, whose failure is ignored |
| `Respond`, `Cancel` | `respond`, `signal`, wakes; `cancel` |

Clocks: a command may see any set of leases as expired, if it contains the
released ones and no lease of an *immortal* activation (`Mortal` is a constant:
an immortal activation renews in time for every clock). Settlement is written
bottom-up: `Terminate` (terminal event and tool results), `ReconcileChildWait`
(the parent's wait), `StartParents` (a queued parent starts with the settlement of
its last child, wherever it stands in its lane), `CancellingParents`,
`AfterTerminal` (lanes); `Settle` is
their composition, and `CanSettle` its error paths: the command fails as a whole
if any part does. Waits of a Run are tokens: the Run itself for an answer from
outside, a child for its settlement. `Hosted` are the Sessions with a host Session,
which is there before their first Run. Of a host Session this module keeps the lane
and nothing else: its queue, its lifecycle (during which `promoteHead` does
nothing), the Runs held on it and their activation are in `SessionQueue`, so that
`Activate` and a start that is held are for the other Sessions. `OwnershipProofs` has the lemmas about these
transitions, `OwnershipSafetyProofs` the theorems (section 5).

### Operations

One Run, one batch of authored tool calls, the hosts that execute it.

| variable | code |
|---|---|
| `run` | `StoredRun`: status, `ownerId`, `cancellationRequested`, the waits of the gated calls, and the checkpoint of the batch |
| `ops` | `StoredOperation` of each call, by operation key: status and resolution |
| `exec` | per host the execution under way: the claim it holds, what it loaded, and per call how far its fiber is |
| `effects` | how often the effect of each call took place in the world |

| action | code |
|---|---|
| `Claim`, `Load`, `Release` | `claimExecution`; `expireRunningOperations`, `recoverRunningOperations` and the resumed batch; `settleAndRelease` |
| `Authorize`, `Record`, `Begin`, `Perform` | authorization, `requestOperation`, `startOperation`, the handler |
| `Succeed`, `Reject`, `Defect` | `completeOperation` with the outcome of a handler that returned, failed, or died |
| `StageEnd`, `Suspend`, `Complete` | the checkpoint of a stage; `suspend`; `complete` |
| `SettleActive`, `Fail` | what a failed execution leaves running; `fail` |
| `Interrupt`, `Acknowledge`, `CancelFails`, `Reconciled` | the interruption by a cancellation, its delivery to each executor and the acknowledgement |
| `Abandon`, `Crash`, `LeaseLapses` | shutdown of a host, its death, the loss of its lease |
| `Cancel`, `Respond`, `Resolve`, `OperatorRetry` | clients and operators. The runtime's `resolveOperation` applies a pending cancellation again, the operator's does not |

A read of the canonical state between two commands of an execution belongs to
the second; commands are fenced by `Fenced(h)`. The handler of a call is a
constant: the set of what it may do.

### Schedules

`Register`, `FallsDue` (time), `ClaimDue` (`claimDueSchedules`), `Admit` (the Run
of the claimed occurrence), `Advance` (`advanceSchedule`), `ClaimLapses`,
`ActivationDies`. `schedules` is the stored record with its claim, `firing` what
an activation still has to fire, `advanced` the receipts of advance commands:
the receipt is what makes a repeated advance do nothing.

### SessionQueue

`Submit`, `Message`, `Remove`, `Start`, `Activate`, `CancelRun`, `Halt` (stop and
close), `Resume` are the commands of the host; `ClaimRun`, `ReleaseRun`,
`Consume`, `Conclude`, `SettleRun` the life of a Run. `session` is the queue, the
lane, the active Run and the lifecycle; the two terminal hooks (`Settled`: what
was not read returns to the front; the next head is promoted) are part of every
action that settles a Run. `PromoteHead` starts the head as the code does, whether
another Run is active or not, which loses messages (`queue_overtaken`, section 6). `ActiveRunStays` says of a step that this does
not happen; in `components`, with one Run started beside the queue, it cannot happen,
and `queue_overtaken` has three.

### Awaits

`Execute`, `ReadInbox`, `RecordTurn`, `SuspendOn`, `BatchDone`, `Ends`,
`LoseExecution` are the execution of a Run; `Wake`, `Send`, `CancelFamilyRun` come
from outside, `Elapses`, `Tick`, `TimeOut` from clocks and schedulers. `execution`
holds what an execution knows and the store may have changed since: the calls it
saw answered, the messages it read. Reconciliation of the waits of the whole
family (`WaitingRuns`) is part of every action that settles a Run, sends a
message or suspends. A suspension with two different waits for Runs is refused
(`validateRunWaitIdentity`); in the checked instance each Run has one such wait, and
that the refusal is needed is part of the proof in section 5.

### FanOuts

The family is one variable, `tree` (Runs, groups, abandoned members), and each
command is a composition of operators on it, in the order of the code:
`Terminated` a settled Run, `GroupReconciled` its groups (`JoinCompleted`,
`WithRemainder`), `CancellingParentFinalized`, `Promoted` the freed slots. The
actions: `AdmitGroup`, `Spawn`, `ClaimAgent`, `AwaitGroups`, `CompleteAgent`,
`FailAgent`, `CancelAgent`, `LoseAgent`.

### ExternalChildren

`parent` and `placements` are the partition of the parent, `roots` that of the
receiver, `couriers` the page each reconciler delivers. Actions of the parent:
`Reserve`, `CancelPlacement`, `CancelParent`, `ClaimParent`, `EndParent`,
`LoseParent`; of the root: `ClaimRoot`, `EndRoot`, `LoseRoot`; of a delivery, one
action per command or read of the other partition: `Collect`, `AdmitRoot`,
`InspectPlacement`, `InspectRoot`, `Act`, `ReadSettlement`, `SettlePlacement`,
`ConfirmSettlement`, and `LosePage`, by which it may end anywhere. A page is the set
of what is left to deliver, in the order of the placements' ids (`First`), in which
permits are given too (`UpTo`).


### Programs

One Run of a Program, which calls every operation of `ProgramOp` once and
concurrently. `program` is the Run with its waits, operations and slots,
`attempts` the execution each worker has under way, with how far each of its
calls is, `performed` how often each effect took place.

| action | code |
|---|---|
| `ClaimProgram`, `LoadProgram`, `ReleaseProgram` | `claimExecution`; `executeClaim`, which starts the code from its beginning with the response to its last suspension; `releaseExecution` |
| `Reserve` | `reserveProgramOperation` and what `executeOperation` does with the operation it finds (`AfterReservation`) |
| `Deny`, `SuspendCall`, `StartCall` | authorization and its three ends |
| `Dispatch`, `PerformCall` | the check of the claim and the handler, whose effect a worker may have after it lost the claim |
| `ReturnCall`, `FailCall`, `SettleUnknown` | `settleProgramOperation` of what returned, failed, or was found running |
| `CompleteProgram`, `ThrowProgram`, `LeaveSuspended` | the ends of an attempt (`execute-program.ts`); calls that are still going on are interrupted where they are |
| `InterruptProgram`, `FailProgram` | the cancellation reaches the execution |
| `StopWorker`, `ClaimLost` | shutdown or crash; the lease expires |
| `CancelProgram`, `RespondProgram`, `ResolveCall` | callers and operators |

### Publications

One Run's events, the projection of one host, the clients that follow it.
`AppendEvents` is any host's commit; `Refresh`, `Publish` (one event to all
subscribers), `Install` and `InterruptRefresh` are the steps of `refresh` and
`install` under the semaphore; `RestartHost` closes every subscription.
`ReadEvents` and `Subscribe` begin a subscription, `TakeEvent` is the stream
(replay, then queue), `Lagged` its failure with the cursor to resume at,
`LeaveEvents` a client that goes and comes back. `Watch`, `TakeTick`, `ReadTree`
are a watcher of the tree, whose queue slides with one place. A queue that is
failed hands out what was offered before first; this and the client are modelled
from how the code uses them.

### Composition

`MCJournal` and `MCOwnership` give constants to one module each. `MCOwnershipParts`
has three parts of one instance of `Ownership`: a behaviour picks one in its initial
state and takes only the steps of its hosts and Runs. In the same way `MCComponents`
puts `Schedules`, `SessionQueue`, `Awaits`, `FanOuts` and `ExternalChildren`, and
`MCOperations` puts `Operations`, `Programs` and `Publications`, side by side: a
behaviour picks one of the components in its initial state and takes only the
steps of that one. The parts share no variables, so that nothing is lost by not
interleaving them.

## 3. What the runs check

| run | instance | distinct states | shows |
|---|---|---|---|
| `journal_hosts` | 2 hosts, 1 fiber each, 2 commands, snapshot every commit, 1 retry, 1 late PUT | 821,061 | `TypeOK` `OneHistory` `ExactlyOnce` `AcknowledgedIsCommitted` `NoAbandonedWrite` `LoadCoversListing` `RecoveryBounded` `SnapshotsAreCommitted`: the journal under crashes and late PUTs |
| `journal_refinement` | 2 hosts, snapshot every second commit, no retries, 1 late PUT | 215,807 | `ImplementsCommandLog`: `Journal` implements `CommandLog` |
| `journal_liveness` | 2 hosts, commands of 2 and 1 bytes, at most 2 bytes of replay | 250,920 | `EveryCallReturns`: a call of a host that does not crash returns; `RecoveryBytesBounded`: writers keep the byte bound that recovery enforces |
| `ownership_parts` | *hosts*: 2 hosts with worker names of their own, both mortal, whose releases may fail, 2 roots in the lane of a host Session, of which one may be claimed twice. *lane*: 1 host, 2 roots in the lane, of which one may have a child from its start on or later. *family*: 1 host, that root with 2 children on one Session, initial ones or later ones | 268,266 | `TypeOK`; `SessionsRecover`: owners can be taken over, no Session stays bound; `LanesServed`: in every order of admission, settlement and cancellation the head of a lane starts; `NoLostWakeup` `FamiliesSettle`: in any order of settlement, suspension and cancellation |
| `ownership_child` | 2 incarnations of one worker, one mortal, a root of a Session without a host Session, started, held, sent or activated, and its child | 97,752 | `SingleExecution` `AuthorityIsKept`: at most one authorised execution, and a stale one takes nothing from it; `WorkIsTaken`: takeover, and what may be executed is claimed |
| `operations` | *agent*: 2 hosts of which one may fail once, 3 calls in two stages: 1 and 2 parallel, never replayed, 1 cancellable; 3 safe, with an approval; operators resolve to Succeeded or Retry, and retry. *program*: 2 workers of which one may fail once or an operator retry one operation, 2 calls that must not be repeated, one may fail and one needs an approval. *publication*: a follower with a queue of 1, 3 events in batches of up to 2, 1 fault | 383,932 | `OpsTypeOK` `SideEffectOnce` `UnknownNeedsResolution` `BatchIsFollowed` `OutcomesAreFinal` `CancellationsAreAcknowledged`; `ProgramEffects` `SlotsAccounted`; `EveryRunSettles` (both); `FollowedInOrder` `SubscribersCatchUp`; `PartsTypeOK` |
| `components` | *schedules*: 2 activations, 2 schedules, 3 occurrences, 1 fault. *queue*: 3 inputs, a limit of 2, 1 prepared Run, 2 stops. *awaits*: 2 Runs that wait for each other, 3 waits, 1 message, 1 event, timeouts one at a time, 1 fault. *fan-outs*: a root with a group of 2 (quorum 1, the rest cancelled), one of which has a group of 2 (quorum 1, the rest abandoned), and 1 single child; 1 slot, 2 faults. *external*: 2 placements, 1 slot, a reconciler on either side, 1 fault | 458,294 | `AdmittedInOrder` `InputInOnePlace` `WaitsAreServed` `GroupsAgree` `PartitionsAgree` `WorkMovesOn` `FamiliesSettleDown` `PlacementsSettle` `ComponentsTypeOK` |

The remaining five runs each find one disagreement (section 6): `journal_wedged`
(32,829 states), `journal_shared_stale` (36,560), `ownership_parked` (113),
`ownership_turns` (127), `queue_overtaken` (1,658).

Four properties are conjunctions of parts that are stated and named on their own
in the modules: `WorkIsTaken` (`Takeover`, `RunnableIsClaimed`), `WaitsAreServed`
(`NothingMissedWhileWaiting`, `DeliveredOnce`), `GroupsAgree` (`JoinedInTime`,
`OutcomeAfterGroups`), and `WorkMovesOn` (`SchedulesAdvance`, `QueueDrains`,
`WaitsTimeOut`).

Deadlock is checked in the Journal runs: a caller that got its answer may always
call again (an id is committed at most once, so repeated calls do not grow the
state). The other runs switch it off because their systems may stop: hosts
activate once, Runs end, inputs run out.

Bounds. A slot has one winner and its losers behave alike, so two hosts show
every kind of race for it; a third writer is there in the form of the late PUT
of a crashed host. With `MaxConflictRetries` = 1 a call loses a slot, retries,
and finds its own id committed by the other host or runs out of retries.
`SnapshotEvery` of 1 and 2 puts the boundary at every commit and between commits.
Late PUTs are bounded by `MaxInFlight`; one is enough for a PUT to land after its
slot was read as empty, after its caller retried, and after a snapshot covered
it. In `Ownership`, `MaxFence` bounds the claims of a Run: two let a stale claim
meet its successor (`SessionsAreRecovered` is proved for any number of claims). Two
roots in one lane, of which either may stand first and one may have a child, are a
head that settles, is cancelled or waits for its child, and a follower that its child
starts before its turn. The settlement of a child needs one claim of it, its parent's
resumption two. Lanes of more than one root on a Session without a host Session, which
starts delete, are in `ownership_turns` and in the theorem `LanesAreServed`. In
`Operations` and `Programs` one failure and one lost claim per behaviour are
enough for an effect whose outcome nobody recorded, for a late effect of a
replaced host, and for an operator to decide about either; a second failure
repeats the first from a state it already explored, except that it may hit the
execution after a retry, which the operator's own retry reaches as well. Three
occurrences, inputs, events and waits let the second be overtaken by the third
while the first is still under way. The family of `FanOuts` has three levels,
which is what it takes for a settlement to pass through a Run that is itself a
member. Hosts and ids are symmetric in the Journal safety runs, the two
mortal hosts and the children in `ownership_parts`; no symmetry is used for liveness.

Every property of a passing run has a mutant in `PROJECT.json`, the conjunctions
one for most of their parts: a definition of the model replaced by a plausible
bug, under which TLC finds that property violated. The mutants stand in the
modules, next to what they mutate.

## 4. Fairness

`Journal!FairSpec` has weak fairness of the steps a call takes by itself
(`Proceed(c)`): a fiber that is not blocked runs, and store requests return or
fail. It does not assume that the store succeeds, that PUTs land or that hosts
do not crash; `EveryCallReturns` says a call returns, fails or dies with its
host. That conflicts cannot starve it is due to `maxConflictRetries`.

`Ownership!FairSpec` assumes of every activation that its executions exit once
their Run settled, was taken from them, or the host closes (the executor awaits
and interrupts its fibers, `run-executor-internal.ts`), and that the finalizer
runs. Of an immortal activation it assumes that it activates, that its heartbeat
runs (a schedule of `runtime.ts`), that its scheduler claims what it selects
(`drain` is called on a schedule and after every wake), and that an execution of
a cancelled Run is settled (`interruption.ts`). It does not assume that models,
tools or clients answer, that executions complete, or that mortal hosts do
anything.

`OpsFairness` and `ProgramsFairness` have weak fairness of the steps of each host
or worker: its scheduler sweeps, its executions go on, handlers return. Nobody
has to cancel, answer or resolve; a Run that waits for one of these has settled
for `EveryRunSettles`. `PublicationsFairness`: the heartbeat of an activation
refreshes its projection, clients take what they are sent and come back when they
are cut off; nobody has to append.

`MCComponents!Fairness`: an activation polls for schedules and goes on with what
it fires, leases of claims run out; a Run of the queue is executed and ends; the
schedulers tick, and executions end or suspend on the waits they have; a Run of a
family that may be claimed is, and one that is owned eventually ends or suspends;
a reconciler goes on with its page, roots are claimed and end, and so does a
parent that has been cancelled. No caller is assumed to do anything.

## 5. What is proved

| theorem | property |
|---|---|
| `JournalProofs!TypeCorrect` | `TypeOK`, and what a frame holds at each program counter |
| `JournalProofs!HistoryIsOne` | `OneHistory`: slots are written once, without gaps, each record extends the one before |
| `JournalProofs!CommandsCommitOnce` | `ExactlyOnce` |
| `JournalProofs!AcknowledgementsHold` | `AcknowledgedIsCommitted` |
| `JournalProofs!DefiniteFailuresAreFinal` | `NoAbandonedWrite` |
| `JournalProofs!RecoveryIsBounded` | `RecoveryBounded` |
| `JournalProofs!CachesAreCommitted` | `SnapshotsAreCommitted` |
| `JournalRefinementProofs!JournalImplementsCommandLog` | `ImplementsCommandLog`, for hosts that make one call at a time |
| `JournalRefinementProofs!ListedSnapshotsRefine` | `ImplementsCommandLog`, wherever every load finds the snapshot of its host among what it listed |
| `JournalRefinementProofs!LoadsCoverListings` | `LoadCoversListing`, for hosts that make one call at a time |
| `ComponentsProofs!SchedulesTyped` | `SchedulesTypeOK` |
| `ComponentsProofs!OccurrencesInOrder` | `AdmittedInOrder` |
| `ComponentsProofs!AwaitsTyped` | `AwaitsTypeOK` |
| `ComponentsProofs!NothingIsMissed` | `WaitsAreServed` |
| `ComponentsProofs!QueueTyped` | `QueueTypeOK` |
| `ComponentsProofs!InputsAreKept` | `InputInOnePlace`, as long as no Run takes the place of an active one |
| `ComponentsProofs!QueuedInputsAreKept` | `InputInOnePlace`, for a Session without Runs started beside its queue; then no Run takes the place of an active one |
| `ComponentsProofs!InputsAreNotDoubled` | an accepted input is in one place at most, without any hypothesis |
| `ComponentsProofs!ExternalTyped` | `ExternalTypeOK` |
| `ComponentsProofs!PartitionsStayInAgreement` | `PartitionsAgree` |
| `OperationsProofs!OpsTyped` | `OpsTypeOK` |
| `OperationsProofs!EffectsOnce` | `SideEffectOnce` |
| `OperationsProofs!OutcomesFinal` | `OutcomesAreFinal` |
| `OperationsProofs!BatchesAreFollowed` | `BatchIsFollowed` |
| `OperationsProofs!UnknownIsKept` | `UnknownNeedsResolution`, as long as no response finds an unknown outcome |
| `OperationsProofs!UnknownIsKeptByOneApproval` | `UnknownNeedsResolution`, for stages that ask for one approval at most |
| `OwnershipSafetyProofs!ExecutionIsSingle` | `SingleExecution` |
| `OwnershipSafetyProofs!NoWakeupIsLost` | `NoLostWakeup` |
| `OwnershipSafetyProofs!FamiliesSettleInOrder` | `FamiliesSettle` |
| `OwnershipSafetyProofs!SessionsAreRecovered` | `SessionsRecover` |
| `OwnershipSafetyProofs!AuthorityIsNotTaken` | `AuthorityIsKept` |
| `OwnershipSafetyProofs!LanesAreServed` | `LanesServed` |
| `OwnershipSafetyProofs!OwnershipTyped` | `TypeOK` |
| `ProgramsProofs!ProgramsTypeCorrect` | `ProgramsTypeOK` |
| `ProgramsProofs!ProgramsReplaySafely` | `ProgramEffects` |
| `ProgramsProofs!SlotsAreAccounted` | `SlotsAccounted` |
| `PublicationsProofs!PublicationsTypeCorrect` | `PublicationsTypeOK` |
| `PublicationsProofs!ClientsFollowInOrder` | `FollowedInOrder` |

They hold for every value of the constants that satisfies the assumption named in
the module (`ConstantsAssumption` of `Journal` and of `Ownership`, and those of
`Schedules`, `SessionQueue`, `Awaits`, `ExternalChildren`, `Operations`, `Programs`
and `Publications`) and, but for the hypotheses the table names (those of
`JournalRefinementProofs`, `InputsAreKept`, `QueuedInputsAreKept` and the two about
unknown outcomes), assume nothing else: any sets of hosts, fibers, commands, activations, schedules, workers and
clients, any number of calls and any division into stages, any operations of a
Program and any budget of concurrent ones, any set of Runs, of Sessions and of
families of two levels, any waits for any Runs, messages and events, any finite set
of placements and any permits for them, any capacity of a subscriber's queue, any
bounds.
`WriterAssumption` of `Ownership` only says that `None` is not one of the records
that stand for a writer.

**Journal.** None of the properties is inductive: that a new commit extends the
history depends on what the fiber loaded some steps before, possibly from a
cache another fiber wrote. The invariant is `TypeInv /\ Safe`, where `Safe` is

- `StoreSafe`: slots are unique; every commit, stored or late, extends committed
  history by an id that is new in it and within the recovery bound; every
  snapshot, published or late, is a prefix of the history;
- `CachesSafe`: each host's verified prefix and snapshot cursor stand for
  committed history;
- `FramesSafe`: what a fiber holds at each program counter is committed history
  within the recovery bound of a published snapshot, it evaluates no command
  whose receipt it has, and the answer it last gave is in the history;
- `Attempts`: who may still write what. A PUT in flight for a free slot belongs
  to a crashed host or to a call that is about to read exactly that slot, so a
  call that settled definitely left none.

The conditional create is what closes the induction: `Create` succeeds only when
the slot is empty, and a fiber's loaded history that ends at the slot before an
empty slot is, by `FramesSafe` and contiguity, the whole history. Each action has
a lemma that it preserves each part it can disturb; the temporal theorems
combine them.

**The refinement.** `JournalRefinementProofs` shows that every step of `Journal` is a
step of `CommandLog` or none, with one lemma per action (`CreateRefines`,
`CommitArrivesRefines`, ...). The invariant adds to the one above which part of the
history a fiber holds: `Newest` (the store has a newest record), `LatePuts` (what
may still arrive is a command with the receipt of its slot) and `Listings` (a load
lists at least what its host had verified, starts its replay from no less, and
never replays beyond its listing). The argument is about two logs: prefixes of the
history agree as far as the shorter one goes (`PrefixesAgree`), so who finds the
next slot free holds the whole history (`FreeSlotIsNext`) and a record that takes
it appends one command (`HistoryGrows`); and a listing is contiguous and ends where
the history does (`ListingIsWhole`), which is the moment a read is linearized. Each
place where the code answers "corruption" is shown to be unreachable on the way.

The hypothesis. A load starts from nothing instead of from a snapshot when another
call of its host moves the snapshot cursor between its two listings
(`journal_shared_stale` in section 6). `SeedsListed` says that this does not happen,
and `ListedSnapshotsRefine` needs nothing else of how the calls of a host interleave.
`OneCallPerHost` implies it (`SeedsStep`): a snapshot the host vouched for before the
listing is a prefix of the history and therefore listed. The commands of an
activation satisfy it, as they are made under its lock; loads made beside them
(auxiliary stores, `lookupReceipt`) are what does not.

**Schedules.** `AdmittedInOrder` needs that an activation fires only what it was
given: the invariant is `SchedulesTypeOK`, `ClaimsAreDue` (a claimed schedule is
due), `FiringIsBehind` (what an activation still has to fire is not ahead of the
schedule) and `AdmittedInOrder`. The id of the admitted Run, which contains the
occurrence, is what makes a second admission of the same occurrence change
nothing.

**Awaits.** Three handlers race for one wait: what it waits for happens, its time
runs out, and the Run suspends while both may be true already. `WaitsAreServed` is not
inductive, as it says nothing of what executions remember and who has taken what.
`AwaitsInv` adds `OneRunWait` (of
the open waits of a Run at most one is for Runs and messages: `suspend` refuses a
second), without which one message could be taken by two waits; `AnsweredIsAnswered`
(what an execution remembers as answered is); `MessagesInv` and `EventsInv` (a
consumed message has exactly one taker, a turn or a wait, and a pending one none; an
event that answered a wait of a Run has its receipt and answered no other). `NobodyMisses` is about every Run whose
waits have been reconciled (`Served`). The lemmas on reconciliation
(`ReconcileDoes`, `ReconcileServes`, `ReconcileKeeps`) are about the step that every
command takes at its end, for all Runs at once; each action is then shown to hand it
a family it can reconcile (`Reconcilable`).

**SessionQueue.** An input that has been accepted is queued, unread in a Run, consumed,
a Run of its own, or removed; `Kept` says that the accepted inputs are divided among
these (`Division`) and that none is twice in one of them (`NoRepetition`, `ReadOnce`).
What a step may lose is a message that its Run has not read when the Run settles, as
only those of the active Run are queued again; so the invariant needs
`UnreadOfActive`: whoever has unread messages is the active Run and has not settled.
The code breaks this when it promotes a head over the active Run, and only then: the
theorem has the hypothesis `ActiveRunStays`, that no step puts another Run in the place
of an active one that has not settled, and with it no order of commands and executions
loses or doubles an input. The transitions of the store (`PromoteHead`, `Promote`,
`Settled`) have a lemma each, as functions of the Session; the order of the lane does
not matter to the argument.

Two theorems say what becomes of that hypothesis. `QueuedInputsAreKept` discharges it
for a Session whose Runs all come from its queue: by `Solo` its lane is empty or holds
the active Run alone, and no other Run lives or is owned, so that a settlement leaves
no head to promote. What overtakes is thus only a Run that was started beside the
queue. `InputsAreNotDoubled` drops it: the invariant `Apart` lets the places of the
inputs cover less than what was accepted, and replaces `UnreadOfActive` by
`UnreadOnce` (what was sent to one Run was sent to no other), which every step keeps
because it gives back, or forgets, all a Run has not read at once (`GivenBack`). The
disagreement of section 6 can therefore lose a message and cannot have it read twice.

**ExternalChildren.** No command reads both partitions, so that every agreement
between them is carried by a delivery, and what it carries may be old when it
arrives. `ExternalInv` says what stays true meanwhile: `RootsInv` (root and placement
fit: who works has a permit, a settled placement has the outcome of its root) and
`CouriersInv` (a delivery that is going to activate a root has seen a permit, which
only the settlement takes back; one that is going to record an outcome has it from a
root that has ended, which nothing changes; one that confirms has seen the
settlement). `PermitsInv` bounds the permits: the placements promoted together are
mapped to their ranks among those that queue, which are different and at most as many
as there are permits left (`UpToGrows`, `PromotionFits`).

**Operations.** The invariant is `OpsInv`, the conjunction of `OpsTypeOK`;
`RunInv` (the stored Run fits its operations and the executions: a Run that has an
owner may be executed, and the execution of a host holds a claim or is stale);
`CallInv` (an operation that is running under the present claim was started by
the execution that holds it); and `EffectsCovered` (for each call that must not be
replayed, the effects that took place, and the hosts that have started it and may
still have it, are no more than what its record accounts for: one once it has
started, and one more after a resolution to retry). Only the last says anything of effects; the others are
needed because what keeps a second host from starting the call is its record,
whose status is read, expired and resolved by different actors.

`BatchIsFollowed` is about what the executions carry from step to step and from
attempt to attempt: which stage they are at, the states of the calls in the
checkpoint, the answers they read. `FollowInv` says that these fit the operations
and the waits. Some of it holds of every execution, of one that has lost its claim
too (`MemoryFits`: an answer it has seen is the one the wait has, what it performed
took place). The rest holds only of the execution with the claim and only until
the Run is cancelled: `Fits` (a call that is completed in the stored checkpoint has
succeeded, one that is scheduled has its approval), `Vouched` (a success stands for an
effect or for an operator's word) and `Follows` (the stages before the present one
have succeeded, and so has every call it takes as done). After a cancellation the
last cannot be kept, as an operation may be marked behind the back of the execution;
`StartsInOrder` then says what remains of it, that what has been started was started
in order. `StagesInOrder` and `NextStage` are about the division into stages.

`UnknownNeedsResolution` relates every operation to the status of the Run, which
many commands write without a look at the operations. `UnknownInv` says in addition
that the execution with the claim knows every unknown outcome as a failed call of its
present stage, and does not suspend with one (`Knows`). One command escapes: `respond` puts the Run
back to running, and the outcome may have become unknown since its wait was opened if
the stage has a second gated call (section 6). So `UnknownIsKept` has the hypothesis
that no response finds an unknown outcome, which shows that nothing else hides
one, and `UnknownIsKeptByOneApproval` discharges it where a stage has at most one
gated call: by `OneWait`, there is then at most one open wait, and while it is open
the Run is waiting, has no owner and nothing of it runs.

**Ownership.** One command of this module is a chain of transitions of the
canonical state (terminal events, the parents' waits, cancelling parents, lanes),
so the argument has two layers. `OwnershipProofs` is about transitions: a lemma
named `...Does` unfolds each of them once and says what it changes and what it
leaves; from these follow what each transition preserves. `OwnershipSafetyProofs`
is about the actions. The invariant is `OwnInv`, the conjunction of

- `Sound`, of the canonical state: it is typed; `Life` (a Run waits only for
  itself or its children, an open wait can still be answered, families end from
  below); `Bonds` (who writes a Session is alive or still to be released, and what
  a Run waits for are unanswered calls on its Session);
- `ClaimsFit`, of the executions: no claim is ahead of the fence of its Run; two
  executions of one Run have different fences; an
  execution that still writes its Session knows the Session's epoch and every wait
  of its Run that is open.

`SingleExecution` follows from the fences and from the Session having one writer;
the waits are needed because a resumed execution suspends again for what it
remembers, which must be what is open. `Life` holds again only at the end of a
command: between its transitions the parents of the settled Runs are excepted
(the parameter of `Wakeable`), and what must be shown is that the chain visits
all of them. Two properties need more. `AuthorityIsKept` needs
`LeasesHeld`: an activation that does not fail has its lease from its acquisition
on, and executes nothing before. `LanesServed` needs `LaneInv`: `Lined`, that each
lane is without repetition and holds living roots of its Session, on a hosted
Session all of them, and that a queued head has children that live. What is hard
about it is not the state after a command but the transitions of one: `Lined` has
for its second argument the Runs that have settled and not yet left their lanes, and
`Lining` in addition the parents that may yet start, for a head
that waits for its last child is, in the middle of the settlement of that child, a
queued head without a living child. The chain must then visit it:
`StartParents` starts it if it is queued, and `AfterTerminal` promotes
whoever comes to the head. A root that comes to the head with living children of
its own is promoted nevertheless; what waits at a head is only a root that was started
with initial children on an empty lane of a hosted Session. And the types, for which the
proofs above need less than `TypeOK` says: a settlement raises the epoch of a Session
by the number of Runs it settles, which is a number only because at any time finitely
many Runs have been admitted (`Rest`), as `Runs` itself need not be finite.

**Programs.** `ProgramEffects` bounds a count, and the code runs again from its
beginning after every crash, so the invariant counts what may still happen. For an
operation that must not be repeated, `PerformedInv` says that the attempts that will
have its effect unless they are stopped (`Performers`: a worker in the handler, or
about to enter it with the claim), the effects so far, and one if it has not been
started (`Unstarted`), are together at most one, or two after a resolution to a
retry. Every step moves one from a term to another or drops one: `StartCall` turns
the unstarted one into a performer, `PerformCall` a performer into an effect, a
crash forgets a performer but leaves the operation running, so that it counts as
started. This needs `CallsInv` (what the owner prepares is still reserved, unless a
cancellation has failed it; a gated call goes on only with its approval, which
`AttemptsInv` shows is never withdrawn) and `OutcomesInv` (a success stands for an
effect or for an operator's word). `SlotsInv` adds that the unsettled operations are
finitely many, as the set of operations need not be.

**Publications.** `FollowersInv` has two halves, for the property promises less when
a refresh was interrupted between its offers and its installation. `Gapless` holds
always: what a client has received, its replay and its queue, read in this order, go
up by at most one at a time and reach the last event that was offered (`Position`:
the one being published, or the projection), and a queue that is cut off names a
cursor not beyond that. `Exact` holds as long as no refresh was interrupted: the
queue goes on exactly where the replay ends and ends at `Position`. An interruption
sets `Position` back to the projection, which keeps `Gapless` and is where `Exact`
is lost: the next refresh offers the same events again.

Only model-checked:

- `RecoveryBytesBounded`, which is about a sum over the replayed commits, and
  everything about `FanOuts`, whose operators recurse over the family: the prover has
  no induction over data;
- the conjunctions `PartsTypeOK` and `ComponentsTypeOK` of the composed instances,
  whose parts are theorems but for that of `FanOuts`;
- all liveness, that of `Programs` and `Publications` included, as the prover does
  not deal with fairness and `ENABLED`.

## 6. Disagreements

Each of these is a run that TLC ends with a short counterexample.

- `journal_wedged` (`durability/internal/journal-recovery.ts:243`). A host that
  loads from its cached head keeps the count of records replayed before the
  snapshot it has just found, so the next load is refused ("Recovery exceeds ...
  without a published snapshot") although the snapshot is there, until another
  host publishes a later one.
- `journal_shared_stale` (`journal-recovery.ts:233`). Two fibers of one host:
  while the first is between listing commits and listing snapshots, the second
  moves the snapshot cursor beyond the first one's listing; the first finds no
  snapshot, starts from nothing and replays only the tail.
- `ownership_parked` (`runtime/state/store/control/suspend.ts:194`). A suspension
  that commits after the cancellation turns the Run from cancelling to waiting; no
  sweep looks at waiting Runs.
- `ownership_turns` (`runtime/state/store/admission/lanes.ts:17`). `admitStart` ends
  with `retainHostedLane`, which deletes the lane of a Session without a host
  Session, whoever waits in it: after two sends and a start the second Run is queued
  and in no lane, so that nothing promotes it. `docs/features/runtime.md:112`: "Root
  admission is FIFO per Session across addresses; only the lane head receives the
  Session writer claim."
- `queue_overtaken` (`runtime/state/store/admission/lanes.ts:65`). `promoteHead` does
  not look whether another Run of the Session is active, as `activateRoot` does. Of
  three held Runs the second is activated and sent a message; the cancellation of the
  third promotes the first, which nobody activated; when the second settles it is not
  the active Run any more, and the message it had not read is not queued again.
  `docs/features/host.md:193` has that undelivered messages count as retained, "so
  cancellation can retain them without overflowing the queue".

`LoadCoversListing` holds with one fiber per host (`journal_hosts`) and fails
with two. `ownership_parked` limits what the passing runs may say:
`FamiliesSettle` is about the order of settlements and not about their happening,
and the waiting properties are about Runs that were not cancelled.

The following were met while modelling. They are in the models as they are in the
code, and the properties name them as exceptions; none has a run of its own.
Files are under `runtime/state/store/` unless given otherwise.

*Families and groups*

- `control.ts:281-290`: a Run that ends with a group of its own still running
  parks with a pending outcome and frees its slot, but nobody is promoted; with
  one slot, the queued members of a nested group stay. `runtime/child/group.ts`:
  "Members beyond the parent Run's active child capacity queue durably and promote
  automatically."
- `fan-out/remainder.ts:54`: a member nobody executes is cancelled on the spot,
  without its children, waits and operations; `docs/features/agent-programs.md:95`:
  "cancellation settles owned children, waits, operations, and slots before
  terminal state."
- `child/capacity.ts:450`: queued members of a group that is not running any more,
  abandoned ones, are neither promoted nor cancelled; `admission/accept.ts:370`: a
  child spawned while its parent is being cancelled stays queued.
- `runtime/child/runs.ts:114`: the children of the `run_child` tool share one Session: a
  child can find the unanswered calls of its sibling on it and then neither respond nor
  settle; `child/session.ts:10`: "each spawned Run gets its own session".
- `child/settlement.ts:86`: the settlement of a child drops the owner of a parent
  that meanwhile executes on another wait, and leaves the writer of its Session.

*External children*

- `child/capacity.ts:489`: a placement that is queued when its parent ends by
  itself is neither promoted nor cancelled, unless the ended parent is cancelled;
  `docs/features/child-admission.md`: "bounded Runtime reconciliation recovers every
  retained obligation".
- `runtime/child/external/reconciliation.ts:113`: a peer that keeps failing ends
  every page at its placement and starves those behind it.

*Sessions, waits, schedules*

- `child/settlement.ts:160-168`: a root that is queued starts with the settlement of
  its last child, also behind the head of its lane, and a cancelled root leaves
  the queue for its own settlement; the FIFO order of `docs/features/runtime.md:112`
  holds for promotions, which is why `LanesServed` says nothing of followers.
- `admission/accept.ts:259`: a start with initial children on an empty lane is the
  head of it and queued; until its last child has settled nobody behind it starts.
  On a Session without a host Session its lane is deleted with the
  same command, and it stays queued and outside of every lane until then.
- `host-session/lifecycle.ts:37`: resume calls `promote`, which returns while the
  lane is not empty, and never `promoteHead`: a Run started while the Session was
  stopped stays; `docs/features/child-admission.md:44`: "`session.resume({ commandId
  })` explicitly reopens promotion". The same holds for a Run prepared with
  `activate: false` that others wait behind.
- `runtime/execution/trigger/scheduler.ts:29`: the advance command has a receipt
  also when it did nothing, so an activation that fired late cannot advance an
  occurrence it claims again; the comment above `fire` excludes Runs that "can never
  advance".
- `trigger/wake.ts:96-116`: `fail` leaves waits open, and the batch of due waits
  includes those of ended Runs, whose timeout fails: enough of them starve live
  timeouts (`docs/features/triggers.md:39`).
- An event woken before its wait opens is ignored, and its `dedupeKey` is spent.

*Operations*

- `operation/cancellation.ts:68-73` takes the Run out of needs-resolution when it
  marks one operation although another is unknown (`docs/features/runtime.md:138`,
  `docs/features/durable-agent-driver.md:78`); with two open waits, `respond` does
  so as well.
- A tool that must not be replayed and dies in its process is unknown in the batch
  too; after its resolution the batch fails the Run
  (`core/agent/tools/resume-batch.ts:93`; `docs/features/runtime.md:143`).
- `operation/operator.ts:169`: an operator's retry brings a Run that has ended back;
  an operation that became unknown again after a Retry cannot be resolved again.
- `cancel` of a Run that nobody owns and that has a running operation which must
  not be replayed ends it at once.

*Programs*

- `program.ts:251`: settling an operation as unknown releases its slot; a Retry
  reserves none, and the next settlement releases one more (cut off at zero).
- `runtime/program/runner.ts:171`: what `startProgramOperation` returns is not
  looked at: two concurrent calls with one operation name are both dispatched.
- `runtime/program/approval.ts:35`: only the response to the last suspension is
  looked at. With two concurrent calls that need approval, the one that was
  approved first suspends again on its closed wait, which fails the Run.
- `program.ts:328`: a call suspends whatever the status of its operation is, also
  after a cancellation failed it; the cancelled Run then waits.
- A suspension interrupts concurrent calls; those that must not be repeated are
  unknown when the code runs again although nothing failed.
- A response takes a Run with an unknown operation to running, and its next attempt
  fails it, or, if it has been cancelled, leaves it out of reach of operators;
  `docs/features/agent-programs.md`: "leaves unknown non-idempotent outcomes
  `needs-resolution` unless cancelled". The same document has that "cancellation may
  settle the Run while preserving `unknown`", which `control.ts` refuses.

*Events*

- An interrupted refresh delivers events again (`durability/internal/runtime.ts:210`);
  `docs/features/runtime.md:126`: "strictly increasing sequence".
  `FollowedInOrder` excludes it.

*Kernels*, read but not modelled: restart or close during a boot puts back the old
epoch and its lease (`repl/` pool), so that two kernels of one Session may be alive.

## 7. What is left out

`PROJECT.json` lists every component with what its model lacks. In the modelled
ones: capacity and budgets are modelled in `FanOuts` and `ExternalChildren` and not
in `Ownership`, where a restriction of what is claimed cannot break a safety
property; a start may also admit initial groups, which are in `FanOuts`; of a Session's conversation there is only which Runs have unanswered
calls; requirements of compaction, watchers, and acknowledgement of steering are
left out; forks are commands that copy state. `releaseExecution` that fails while
its host goes on is an alternative in the *hosts* of `ownership_parts` and excluded where
liveness is checked (`ReleaseMayFail`), as such a Run stays owned by a worker whose
lease is renewed. The object stores are I/O and are modelled by the contract the
journal relies on. Server, clients, engine, inspection, projections, providers,
media, sandbox, memory, instructions, skills, tasks and hooks are adapters, views
and pure functions: they keep no state that several actors change, or hand it to
the commands that are modelled. The agent loop itself is a pure function of the
conversation between the commands of `Operations`.

## 8. Plan

1. `Kernels`: epochs and the resource authority of the REPL, once the semantics
   of the scoped maps it relies on are pinned down.
2. The turns of an agent (`core/durable`): checkpoints, budgets, compaction; forks.
3. Tool Runs and the shutdown of a host composed with `Ownership`, with the map of
   its fibers as state (`active-executions.ts`).
