----------------------------- MODULE Ownership -----------------------------
(***************************************************************************)
(* Who may execute a Run: activation leases, execution claims and their    *)
(* fences, Session writers, FIFO lanes, parent and child settlement and    *)
(* cancellation.  Sources: durability/internal/runtime.ts (leases) and     *)
(* runtime/state/store (claims, admission, control, child settlement) of   *)
(* packages/generalist/src.                                                *)
(*                                                                         *)
(* Every command is one transition of the canonical state, which the       *)
(* journal serialises (module Journal).  A command that fails after its    *)
(* commit was applied is the command followed by the failure of its host;  *)
(* a late commit of a crashed host is the same as a crash after it.        *)
(*                                                                         *)
(* Hosts read different clocks: a command takes any set of leases that     *)
(* contains the released ones as expired.                                  *)
(*                                                                         *)
(* Left out: operations and needs-resolution, capacity and permits,        *)
(* fan-outs, steering, tool Runs without a Session, and what else a host   *)
(* Session has: its queue, its lifecycle, its active Run and the Runs held *)
(* for it (module SessionQueue).  A family has two levels.                 *)
(***************************************************************************)
EXTENDS Naturals, Sequences, FiniteSets

CONSTANTS
    Activations,    \* host incarnations; each activates at most once
    Workers,        \* worker identities
    WorkerOf,       \* the worker identity an activation is configured with
    Runs, Sessions,
    SessionOf,      \* run.message.sessionId
    Parent,         \* run.parentRunId
    Hosted,         \* the Sessions with a host Session
    None,
    MaxInitialChildren, \* of a start; 64 in the code
    MaxFence,       \* bound: no claim of a Run beyond this attempt fence
    Mortal,         \* activations that may fail or let their lease lapse
    ReleaseMayFail  \* whether the ignored failure of releaseExecution happens

Children(r) == {c \in Runs : Parent[c] = r}

ASSUME ConstantsAssumption ==
    /\ None \notin Activations \cup Workers \cup Runs
    /\ WorkerOf \in [Activations -> Workers]
    /\ SessionOf \in [Runs -> Sessions]
    /\ Parent \in [Runs -> Runs \cup {None}]
    \* A family has two levels, and only siblings may share a child Session.
    /\ \A c \in Runs : Parent[c] # None => Parent[Parent[c]] = None
    /\ \A q, r \in Runs : SessionOf[q] = SessionOf[r] => Parent[q] = Parent[r]
    /\ Hosted \subseteq Sessions
    /\ MaxInitialChildren \in Nat
    /\ MaxFence \in [Runs -> Nat]
    /\ Mortal \subseteq Activations
    /\ ReleaseMayFail \in BOOLEAN

VARIABLES
    state,          \* the canonical RuntimeState of the partition
    host,           \* the phase of every activation
    fiber           \* the claim every activation executes a Run under, if any

vars == <<state, host, fiber>>

-----------------------------------------------------------------------------
(* The canonical state.                                                    *)

Terminal == {"succeeded", "failed", "cancelled"}
Statuses == {"absent", "queued", "running", "waiting", "cancelling"} \cup Terminal

\* The tokens a Run waits for: itself stands for an answer from outside, a
\* child for the settlement of that child.
Tokens(r) == {r} \cup Children(r)

Writer == [runId : Runs, ownerId : Workers, runAttemptFence : Nat]
\* None is no writer.
ASSUME WriterAssumption == None \notin Writer

StoredRun == [status : Statuses, ownerId : Workers \cup {None},
              attemptFence : Nat, cancellationRequested : BOOLEAN,
              openWaits : SUBSET Runs, closedWaits : SUBSET Runs,
              children : Seq(Runs)]
\* unansweredBy: the Runs with unanswered tool calls on the Session's path.
RuntimeSession == [writer : Writer \cup {None}, writerEpoch : Nat,
                   unansweredBy : SUBSET Runs]
RuntimeState ==
    [workers : [Workers -> Activations \cup {None}],  \* lease.incarnation
     released : SUBSET Workers,                       \* expiresAt = 0
     runs : [Runs -> StoredRun],
     sessions : [Sessions -> RuntimeSession],
     lanes : [Sessions -> Seq(Runs)]]
\* An ExecutionClaim of a Run, with what the execution loaded: the open waits,
\* and whether the Run was cancelled.
Claim == [attemptFence : Nat, epoch : Nat, pending : SUBSET Runs, cancelled : BOOLEAN]
Phases == {"idle", "acquired", "active", "closing", "dead"}

TypeOK ==
    /\ state \in RuntimeState
    /\ host \in [Activations -> Phases]
    /\ fiber \in [Activations -> [Runs -> Claim \cup {None}]]

EmptyState ==
    [workers |-> [w \in Workers |-> None],
     released |-> {},
     runs |-> [r \in Runs |->
         [status |-> "absent", ownerId |-> None, attemptFence |-> 0,
          cancellationRequested |-> FALSE, openWaits |-> {}, closedWaits |-> {},
          children |-> << >>]],
     sessions |-> [x \in Sessions |->
         [writer |-> None, writerEpoch |-> 0, unansweredBy |-> {}]],
     lanes |-> [x \in Sessions |-> << >>]]

Idle == [r \in Runs |-> None]

Init ==
    /\ state = EmptyState
    /\ host = [a \in Activations |-> "idle"]
    /\ fiber = [a \in Activations |-> Idle]

Alive(s, r) == s.runs[r].status \notin Terminal \cup {"absent"}
UnsettledChildren(s, r) == {c \in Children(r) : Alive(s, c)}
SessionIn(s, r) == s.sessions[SessionOf[r]]
WriterOf(s, r) == [runId |-> r, ownerId |-> s.runs[r].ownerId,
                   runAttemptFence |-> s.runs[r].attemptFence]

-----------------------------------------------------------------------------
(* Transitions of the canonical state shared by several commands.          *)

\* Leases a command's clock may show as expired.
ExpiredSets(s) ==
    {E \in SUBSET {w \in Workers : s.workers[w] \in Mortal} : s.released \subseteq E}

\* Mutant: the Runs of an expired worker keep their owner.
ReleaseExpiredOwnersMutant(s, E) ==
    [s EXCEPT !.workers = [w \in Workers |-> IF w \in E THEN None ELSE @[w]],
              !.released = @ \ E]

\* releaseExpiredOwners: lease expiry takes the Runs of a worker and the
\* Session writers of those Runs, and raises their fences.
ReleaseExpiredOwners(s, E) ==
    LET freed == {r \in Runs : s.runs[r].ownerId \in E}
        revoked == {x \in Sessions : \E r \in freed :
                       /\ SessionOf[r] = x
                       /\ s.sessions[x].writer # None
                       /\ s.sessions[x].writer.runId = r
                       /\ s.sessions[x].writer.ownerId = s.runs[r].ownerId}
    IN [s EXCEPT
          !.workers = [w \in Workers |-> IF w \in E THEN None ELSE s.workers[w]],
          !.released = @ \ E,
          !.runs = [r \in Runs |->
              IF r \in freed
              THEN [s.runs[r] EXCEPT !.ownerId = None, !.attemptFence = @ + 1]
              ELSE s.runs[r]],
          !.sessions = [x \in Sessions |->
              IF x \in revoked
              THEN [s.sessions[x] EXCEPT !.writer = None, !.writerEpoch = @ + 1]
              ELSE s.sessions[x]]]

\* requireExecutionClaim: the claim still owns the Run and writes its Session.
Authorized(s, w, r, claim) ==
    /\ s.runs[r].ownerId = w
    /\ s.runs[r].attemptFence = claim.attemptFence
    /\ SessionIn(s, r).writerEpoch = claim.epoch
    /\ SessionIn(s, r).writer = WriterOf(s, r)

\* A Run that nobody owns any more.
Disowned(s, r) == [s EXCEPT !.runs[r] = [s.runs[r] EXCEPT !.ownerId = None]]

\* Mutant: the writer of a claim stays.
RevokeSessionMutant(s, w, r, claim) == IF claim = None THEN EmptyState ELSE s

\* revokeSession: the writer of a claim goes once its Run is not owned.
RevokeSession(s, w, r, claim) ==
    IF /\ s.runs[r].ownerId = None
       /\ SessionIn(s, r).writerEpoch = claim.epoch
       /\ SessionIn(s, r).writer =
              [runId |-> r, ownerId |-> w, runAttemptFence |-> claim.attemptFence]
    THEN [s EXCEPT !.sessions[SessionOf[r]] = [SessionIn(s, r) EXCEPT !.writer = None]]
    ELSE s

\* Which of the Runs D settles first on a Session: siblings settle in the
\* order of their parent's `children`.
PrecedesIn(s, q, r) ==
    \/ q = r
    \/ \E i, j \in DOMAIN s.runs[Parent[r]].children :
          /\ i < j
          /\ s.runs[Parent[r]].children[i] = q
          /\ s.runs[Parent[r]].children[j] = r
FirstOn(s, D, x) ==
    CHOOSE r \in D : /\ SessionOf[r] = x
                     /\ \A q \in D : SessionOf[q] = x => PrecedesIn(s, r, q)

\* appendTerminalToolResults: a Run with unanswered tool calls needs an
\* outcome for each, a Session path of its own, and a Session that nobody
\* else is bound to.
CanTerminate(s, D, status) ==
    \A x \in {SessionOf[r] : r \in D} :
        LET first == FirstOn(s, D, x)
        IN s.sessions[x].unansweredBy # {} =>
               /\ status # "succeeded"
               /\ s.sessions[x].unansweredBy = {first}
               /\ s.sessions[x].writer \in {None, WriterOf(s, first)}

\* The terminal event of the Runs D.  An unbound Session is written under a
\* writer of its own that lives as long as the append.
Terminate(s, D, status) ==
    LET on(x) == {r \in D : SessionOf[r] = x}
        cancelled(r) == IF status = "cancelled" THEN s.runs[r].openWaits ELSE {}
    IN [s EXCEPT
          !.runs = [r \in Runs |->
              IF r \in D
              THEN [s.runs[r] EXCEPT !.status = status,
                                     !.openWaits = @ \ cancelled(r),
                                     !.closedWaits = @ \cup cancelled(r)]
              ELSE s.runs[r]],
          !.sessions = [x \in Sessions |->
              [s.sessions[x] EXCEPT
                 !.writerEpoch = IF s.sessions[x].writer = None
                                 THEN @ + Cardinality(on(x)) ELSE @,
                 !.unansweredBy = IF on(x) = {} THEN @ ELSE {}]]]

\* reconcileChildWait: a settled child answers the wait of its parent and
\* takes the parent from whoever executes it.
ReconcileChildWait(s, D) ==
    LET settled(p) == {c \in s.runs[p].openWaits : c \in D /\ c # p}
        resumed == {p \in Runs : /\ Alive(s, p)
                                 /\ ~s.runs[p].cancellationRequested
                                 /\ settled(p) # {}}
    IN [s EXCEPT !.runs = [p \in Runs |->
            IF p \in resumed
            THEN [s.runs[p] EXCEPT !.status = "running", !.ownerId = None,
                                   !.openWaits = @ \ settled(p),
                                   !.closedWaits = @ \cup settled(p)]
            ELSE s.runs[p]]]

\* Mutant: a cancelling parent settles with the first of its children.
CancellingParentsMutant(s, D) ==
    {p \in {Parent[c] : c \in D} \ {None} :
        s.runs[p].status = "cancelling" /\ s.runs[p].ownerId = None}

\* finalizeCancellingParent: the parents that only waited for the Runs D.
CancellingParents(s, D) ==
    {p \in {Parent[c] : c \in D} \ {None} :
        /\ s.runs[p].status = "cancelling"
        /\ s.runs[p].ownerId = None
        /\ UnsettledChildren(s, p) = {}}

\* Mutant: a settled head leaves its lane without the next one starting.
PromoteHeadsMutant(s, X) == IF X = {} THEN s ELSE s

\* promoteHead: the head of a lane starts.
PromoteHeads(s, X) ==
    LET heads == {r \in Runs : /\ SessionOf[r] \in X
                               /\ s.lanes[SessionOf[r]] # << >>
                               /\ Head(s.lanes[SessionOf[r]]) = r
                               /\ s.runs[r].status = "queued"
                               /\ ~s.runs[r].cancellationRequested}
    IN [s EXCEPT !.runs = [r \in Runs |->
            IF r \in heads THEN [s.runs[r] EXCEPT !.status = "running"] ELSE s.runs[r]]]

\* removeFromLane: a lane without those of D; a family has one Run on it.
Without(lane, D) ==
    IF \A i \in DOMAIN lane : lane[i] \notin D
    THEN lane
    ELSE LET k == CHOOSE i \in DOMAIN lane : lane[i] \in D
         IN [i \in 1 .. Len(lane) - 1 |-> IF i < k THEN lane[i] ELSE lane[i + 1]]

\* afterTerminal: settled Runs leave their lanes and the next heads start.
AfterTerminal(s, D) ==
    PromoteHeads([s EXCEPT !.lanes = [x \in Sessions |-> Without(s.lanes[x], D)]],
                 {SessionOf[r] : r \in D})

\* Mutant: the start of a queued parent is forgotten.
StartParentsMutant(s, D) == s

\* settleParentChild: a queued parent whose children have settled starts,
\* wherever it stands in its lane.
StartParents(s, D) ==
    [s EXCEPT !.runs = [p \in Runs |->
        IF /\ p \in {Parent[c] : c \in D}
           /\ s.runs[p].status = "queued"
           /\ UnsettledChildren(s, p) = {}
        THEN [s.runs[p] EXCEPT !.status = "running"]
        ELSE s.runs[p]]]

\* Runs settle with one status, then their waiting and queued parents, then
\* their cancelling parents, all in one command: it is refused when any is.
Settled(s, D, status) ==
    StartParents(ReconcileChildWait(Terminate(s, D, status), D), D)
CanSettle(s, D, status) ==
    LET settled == Settled(s, D, status)
    IN /\ CanTerminate(s, D, status)
       /\ CanTerminate(settled, CancellingParents(settled, D), "cancelled")
Settle(s, D, status) ==
    LET settled == Settled(s, D, status)
        parents == CancellingParents(settled, D)
    IN AfterTerminal(Terminate(settled, parents, "cancelled"), D \cup parents)

-----------------------------------------------------------------------------
(* Activation leases.                                                      *)

\* acquire: refused while another incarnation holds the worker's lease.
Acquire(a, E) ==
    LET w == WorkerOf[a]
        s == ReleaseExpiredOwners(state, E)
    IN /\ host[a] = "idle"
       /\ s.workers[w] = None
       /\ state' = [s EXCEPT !.workers[w] = a]
       /\ host' = [host EXCEPT ![a] = "acquired"]
       /\ UNCHANGED fiber

\* reconcile: renews the lease, and takes every expired one away.  The first
\* one activates the host, later ones are its heartbeats.
Reconcile(a, E) ==
    LET w == WorkerOf[a]
    IN /\ host[a] \in {"acquired", "active"}
       /\ state.workers[w] = a /\ w \notin E
       /\ state' = ReleaseExpiredOwners(state, E)
       /\ host' = [host EXCEPT ![a] = "active"]
       /\ UNCHANGED fiber

\* The activation scope closes: shutdown, retirement, a lost lease, or a
\* command that failed.  Its executions are interrupted and exit.
HostFails(a) ==
    /\ a \in Mortal
    /\ host[a] \in {"acquired", "active"}
    /\ host' = [host EXCEPT ![a] = "closing"]
    /\ UNCHANGED <<state, fiber>>

\* ownershipCommands.release: the lease stays, with expiresAt = 0.
ExpireLease(s, w) == [s EXCEPT !.released = @ \cup {w}]

\* The finalizer of acquire, once every execution has exited; its failure is
\* ignored.
ReleaseLease(a) ==
    LET w == WorkerOf[a]
    IN /\ host[a] = "closing"
       /\ fiber[a] = Idle
       /\ \/ /\ state.workers[w] = a
             /\ state' = ExpireLease(state, w)
          \/ UNCHANGED state
       /\ host' = [host EXCEPT ![a] = "dead"]
       /\ UNCHANGED fiber

Crash(a) ==
    /\ a \in Mortal
    /\ host[a] \in {"acquired", "active", "closing"}
    /\ host' = [host EXCEPT ![a] = "dead"]
    /\ fiber' = [fiber EXCEPT ![a] = Idle]
    /\ UNCHANGED state

-----------------------------------------------------------------------------
(* Admission.                                                              *)

\* enqueueLane.
Enqueued(s, r) ==
    [s EXCEPT !.runs[r] = [s.runs[r] EXCEPT !.status = "queued"],
              !.lanes[SessionOf[r]] = Append(@, r)]

\* A root joins the lane of its Session; as the head of the lane it starts,
\* unless its start is held or waits for initial children.
JoinsLane(s, r, promote) ==
    LET x == SessionOf[r]
    IN IF promote /\ s.lanes[x] = << >>
       THEN PromoteHeads(Enqueued(s, r), {x})
       ELSE Enqueued(s, r)

\* admitSend.
AdmitSend(r) ==
    /\ Parent[r] = None
    /\ state.runs[r].status = "absent"
    /\ state' = JoinsLane(state, r, TRUE)
    /\ UNCHANGED <<host, fiber>>

\* retainHostedLane: a start leaves a Session that is not hosted no lane.
RetainHostedLane(s, x) ==
    IF x \in Hosted THEN s ELSE [s EXCEPT !.lanes[x] = << >>]

\* admitSpawn: the parent has more children, and they are queued.
WithChildren(s, p, kids) ==
    [s EXCEPT !.runs = [q \in Runs |->
        IF q = p THEN [s.runs[p] EXCEPT !.children = @ \o kids]
        ELSE IF \E i \in DOMAIN kids : kids[i] = q
        THEN [s.runs[q] EXCEPT !.status = "queued"]
        ELSE s.runs[q]]]

\* The initial children of a start, in the order of the request.
Requests(r) ==
    UNION {{kids \in [1 .. n -> Children(r)] :
                \A i, j \in 1 .. n : kids[i] = kids[j] => i = j} :
           n \in 0 .. MaxInitialChildren}

\* admitStart.  The Runs it admits are new.  A start without initial children may
\* be held (admit), and is then started by its activation.
AdmitStart(r) ==
    /\ Parent[r] = None
    /\ state.runs[r].status = "absent"
    /\ \E kids \in Requests(r), activate \in BOOLEAN :
          LET x == SessionOf[r]
              joined == JoinsLane(state, r, kids = << >> /\ activate)
          IN /\ \A i \in DOMAIN kids : state.runs[kids[i]].status = "absent"
             /\ ~activate => kids = << >> /\ x \notin Hosted
             /\ state' = WithChildren(RetainHostedLane(joined, x), r, kids)
             /\ UNCHANGED <<host, fiber>>

\* activateRoot: refused for a Run with children.
Activate(r) ==
    /\ Parent[r] = None
    /\ SessionOf[r] \notin Hosted
    /\ state.runs[r].status = "queued"
    /\ ~state.runs[r].cancellationRequested
    /\ state.runs[r].children = << >>
    /\ state' = [state EXCEPT !.runs[r] = [state.runs[r] EXCEPT !.status = "running"]]
    /\ UNCHANGED <<host, fiber>>

\* admitSpawn: any Run that has not settled may be given another child.
AdmitChild(c) ==
    /\ Parent[c] # None
    /\ state.runs[c].status = "absent"
    /\ Alive(state, Parent[c])
    /\ state' = WithChildren(state, Parent[c], <<c>>)
    /\ UNCHANGED <<host, fiber>>

-----------------------------------------------------------------------------
(* Execution claims.                                                       *)

\* Mutant: a cancelled Run is no longer claimed.
ClaimableUncancelledMutant(s, r, E) ==
    /\ s.runs[r].status \in {"queued", "running"}
    /\ s.runs[r].status = "queued" => Parent[r] # None
    /\ s.runs[r].ownerId \in {None} \cup E
    /\ SessionIn(s, r).writer # None => SessionIn(s, r).writer.runId = r

\* requireClaimable and claimExecution.
Claimable(s, r, E) ==
    /\ Alive(s, r) /\ s.runs[r].status # "waiting"
    /\ s.runs[r].status = "queued" => Parent[r] # None
    /\ s.runs[r].ownerId \in {None} \cup E
    /\ SessionIn(s, r).writer # None => SessionIn(s, r).writer.runId = r

\* Mutant: the claim keeps the fences of the claim before.
ClaimedByMutant(s, w, r) ==
    [s EXCEPT !.runs[r].status = "running",
              !.runs[r].ownerId = w,
              !.sessions[SessionOf[r]].writer =
                  [runId |-> r, ownerId |-> w,
                   runAttemptFence |-> s.runs[r].attemptFence]]

\* Mutant: the writer is acquired before the Run has its new owner.
ClaimedByUnownedMutant(s, w, r) ==
    [s EXCEPT
       !.runs[r] = [@ EXCEPT !.status = "running", !.ownerId = w,
                             !.attemptFence = @ + 1],
       !.sessions[SessionOf[r]] = [@ EXCEPT !.writer = WriterOf(s, r),
                                            !.writerEpoch = @ + 1]]

\* claimExecution with acquireSession.
ClaimedBy(s, w, r) ==
    [s EXCEPT
       !.runs[r] =
           [s.runs[r] EXCEPT
              !.status = IF s.runs[r].cancellationRequested THEN "cancelling" ELSE "running",
              !.ownerId = w,
              !.attemptFence = @ + 1],
       !.sessions[SessionOf[r]] =
           [SessionIn(s, r) EXCEPT
              !.writer = [runId |-> r, ownerId |-> w,
                          runAttemptFence |-> s.runs[r].attemptFence + 1],
              !.writerEpoch = @ + 1]]

\* The claim itself.  The scheduler does not select a Run its process still
\* executes, but the claim of a cancelling Run may find its last execution
\* not gone; it is then dropped (ActiveExecutions.run, onlyIfMissing).  A
\* claim whose acknowledgement is lost starts nothing and fails its host.
ClaimExecution(a, r, E) ==
    LET w == WorkerOf[a]
        s == ClaimedBy(state, w, r)
        claim == [attemptFence |-> s.runs[r].attemptFence,
                  epoch |-> SessionIn(s, r).writerEpoch,
                  pending |-> s.runs[r].openWaits,
                  cancelled |-> s.runs[r].cancellationRequested]
    IN /\ host[a] = "active"
       /\ state.workers[w] = a /\ w \notin E
       /\ Claimable(state, r, E)
       /\ state.runs[r].attemptFence < MaxFence[r]
       /\ fiber[a][r] # None => state.runs[r].status = "cancelling"
       /\ state' = s
       /\ \/ /\ fiber' = [fiber EXCEPT
                             ![a][r] = IF @ = None THEN claim ELSE @]
             /\ UNCHANGED host
          \/ /\ a \in Mortal
             /\ host' = [host EXCEPT ![a] = "closing"]
             /\ UNCHANGED fiber

\* Mutant: the release of a claim does not look at the attempt fence.
HoldsRunMutant(s, w, r, claim) ==
    claim # None /\ s.runs[r].ownerId = w

\* releaseExecution releases nothing but the Run of its own claim.
HoldsRun(s, w, r, claim) ==
    /\ s.runs[r].ownerId = w
    /\ s.runs[r].attemptFence = claim.attemptFence

Released(s, w, r, claim) ==
    IF HoldsRun(s, w, r, claim)
    THEN RevokeSession(Disowned(s, r), w, r, claim)
    ELSE s

\* settleAndRelease: an execution exits and releases its claim; a failure to
\* release it is ignored.
ReleaseExecution(a, r) ==
    /\ fiber[a][r] # None
    /\ \/ state' = Released(state, WorkerOf[a], r, fiber[a][r])
       \/ ReleaseMayFail /\ UNCHANGED state
    /\ fiber' = [fiber EXCEPT ![a][r] = None]
    /\ UNCHANGED host

-----------------------------------------------------------------------------
(* Commands of an execution, under its claim.                              *)

Holding(a, r) ==
    /\ fiber[a][r] # None
    /\ Authorized(state, WorkerOf[a], r, fiber[a][r])

\* A fenced command and, for those that end the execution, revokeSession.
Fenced(a, r, next) ==
    /\ state' = RevokeSession(next, WorkerOf[a], r, fiber[a][r])
    /\ UNCHANGED <<host, fiber>>

\* An execution issues its commands in sequence, none once its Run settled.
Executes(a, r) == Holding(a, r) /\ Alive(state, r)

\* executeClaim: an execution that starts on a cancelled Run only fails it.
Steps(a, r) == Executes(a, r) /\ ~fiber[a][r].cancelled

\* The Session path of r, with the unanswered calls of U.
WithUnanswered(s, r, U) ==
    [s EXCEPT !.sessions[SessionOf[r]] = [SessionIn(s, r) EXCEPT !.unansweredBy = U]]

\* commitModelResponse: a response with tool calls joins the Session path,
\* which validateContext accepts only without unanswered calls.
RespondWithToolCalls(a, r) ==
    /\ Steps(a, r)
    /\ SessionIn(state, r).unansweredBy = {}
    /\ state' = WithUnanswered(state, r, {r})
    /\ UNCHANGED <<host, fiber>>

\* The results of the calls join it, unless some of them wait.
AppendToolResults(a, r) ==
    /\ Steps(a, r)
    /\ fiber[a][r].pending = {}
    /\ SessionIn(state, r).unansweredBy = {r}
    /\ state' = WithUnanswered(state, r, {})
    /\ UNCHANGED <<host, fiber>>

\* Mutant: suspension does not look for children that settled before it.
SettledBeforeMutant(s, W) == {c \in W : s.runs[c].status = "absent"}

\* reconcileChildren: children a suspension waits for that settled before it.
SettledBefore(s, W) == {c \in W : s.runs[c].status \in Terminal}

\* A Run that waits for W.
Parked(s, r, W) ==
    [s EXCEPT !.runs[r] = [s.runs[r] EXCEPT !.status = "waiting", !.ownerId = None,
                                            !.openWaits = @ \cup W]]

\* suspend: a batch of calls waits, a resumed one for what is still open.
\* The wait of a suspension cannot be reopened.
Suspend(a, r) ==
    \E W \in (SUBSET Tokens(r)) \ {{}} :
        LET claim == fiber[a][r]
            parked == Parked(state, r, W)
        IN /\ Steps(a, r)
           /\ SessionIn(state, r).unansweredBy = {r}
           /\ claim.pending # {} => W = claim.pending
           /\ \A c \in W : state.runs[c].status # "absent"
           /\ W \cap state.runs[r].closedWaits = {}
           /\ Fenced(a, r, ReconcileChildWait(parked, SettledBefore(state, W)))

\* cancellationMustWait: descendants settle before their ancestors.
MustWait(s, r) == UnsettledChildren(s, r) # {}

\* complete and fail.  A cancelled Run settles as cancelled, or gives its
\* ownership up until its children have settled.
Finish(a, r, status) ==
    LET cancelled == state.runs[r].cancellationRequested
        outcome == IF cancelled THEN "cancelled" ELSE status
    IN /\ Executes(a, r)
       /\ IF cancelled /\ MustWait(state, r)
          THEN Fenced(a, r, Disowned(state, r))
          ELSE /\ CanSettle(state, {r}, outcome)
               /\ Fenced(a, r, Settle(state, {r}, outcome))

Complete(a, r) == Steps(a, r) /\ Finish(a, r, "succeeded")
Fail(a, r) == Finish(a, r, "failed")

-----------------------------------------------------------------------------
(* Control.                                                                *)

\* respond, signal and wake: an open wait of r is answered from outside.
Respond(r) ==
    /\ Alive(state, r)
    /\ ~state.runs[r].cancellationRequested
    /\ r \in state.runs[r].openWaits
    /\ state' = [state EXCEPT !.runs[r] =
                     [state.runs[r] EXCEPT !.status = "running",
                                           !.openWaits = @ \ {r},
                                           !.closedWaits = @ \cup {r}]]
    /\ UNCHANGED <<host, fiber>>

\* The Runs a cancellation reaches, and those of them nobody executes.
Cancelled(s, r) == {q \in {r} \cup Children(r) : Alive(s, q)}
OwnerControls(s, q) ==
    s.runs[q].ownerId # None /\ s.runs[q].status \in {"running", "cancelling"}
Requested(s, r) ==
    [s EXCEPT !.runs = [q \in Runs |->
        IF q \in Cancelled(s, r)
        THEN [s.runs[q] EXCEPT
                !.status = IF s.runs[q].cancellationRequested THEN @ ELSE "cancelling",
                !.cancellationRequested = TRUE,
                !.openWaits = {},
                !.closedWaits = @ \cup s.runs[q].openWaits]
        ELSE s.runs[q]]]
\* finalizeCancellation: the ones that settle with the request.
Finalized(s, r) ==
    LET idle == {q \in Cancelled(s, r) : ~OwnerControls(s, q)}
    IN {q \in idle : q # r \/ UnsettledChildren(s, r) \subseteq idle}

\* cancel is refused as a whole when one of those cannot settle.
CanCancel(s, r) ==
    CanSettle(Requested(s, r), Finalized(s, r), "cancelled")

Cancel(r) ==
    /\ state.runs[r].status # "absent"
    /\ CanCancel(state, r)
    /\ state' = Settle(Requested(state, r), Finalized(state, r), "cancelled")
    /\ UNCHANGED <<host, fiber>>

-----------------------------------------------------------------------------
Lease(a) ==
    \/ \E E \in ExpiredSets(state) : Acquire(a, E) \/ Reconcile(a, E)
    \/ HostFails(a)
    \/ ReleaseLease(a)
    \/ Crash(a)

Execution(a, r) ==
    \/ \E E \in ExpiredSets(state) : ClaimExecution(a, r, E)
    \/ RespondWithToolCalls(a, r)
    \/ AppendToolResults(a, r)
    \/ Suspend(a, r)
    \/ Complete(a, r)
    \/ Fail(a, r)
    \/ ReleaseExecution(a, r)

Client(r) ==
    \/ AdmitSend(r)
    \/ AdmitStart(r)
    \/ Activate(r)
    \/ AdmitChild(r)
    \/ Respond(r)
    \/ Cancel(r)

Next ==
    \/ \E a \in Activations : Lease(a)
    \/ \E a \in Activations, r \in Runs : Execution(a, r)
    \/ \E r \in Runs : Client(r)

Spec == Init /\ [][Next]_vars

\* Leases of crashed hosts lapse for every clock.
Lapsed ==
    {w \in Workers : /\ state.workers[w] # None
                     /\ host[state.workers[w]] = "dead"}

\* An immortal activation starts, keeps its heartbeat and its scheduler, and
\* settles what it executes of a cancelled Run.
KeepsServing(a) ==
    /\ WF_vars(\E E \in ExpiredSets(state) : Acquire(a, E))
    /\ WF_vars(Reconcile(a, Lapsed))
    /\ \A r \in Runs :
         /\ WF_vars(ClaimExecution(a, r, {}))
         /\ WF_vars(state.runs[r].cancellationRequested /\ Fail(a, r))

\* An execution whose Run settled or was taken from it exits, and so do all
\* executions of a closing host.
Exits(a) ==
    /\ WF_vars(ReleaseLease(a))
    /\ \A r \in Runs :
         WF_vars(/\ \/ host[a] = "closing" \/ ~Alive(state, r) \/ ~Holding(a, r)
                 /\ ReleaseExecution(a, r))

FairSpec ==
    /\ Spec
    /\ \A a \in Activations : Exits(a)
    /\ \A a \in Activations \ Mortal : KeepsServing(a)

-----------------------------------------------------------------------------
(* Properties.                                                             *)

\* On a Session at most one execution is authorised at a time, whatever
\* hosts crash, close or believe to hold: claims fence the ones before.
SingleExecution ==
    \A x \in Sessions :
        Cardinality({e \in Activations \X Runs :
                        SessionOf[e[2]] = x /\ Holding(e[1], e[2])}) <= 1

\* A Session is never left bound to a Run that nobody will execute again: its
\* writer's Run has not settled, or still has an owner to be released.
SessionsRecover ==
    \A x \in Sessions :
        LET writer == state.sessions[x].writer
        IN writer # None => \/ Alive(state, writer.runId)
                            \/ state.runs[writer.runId].ownerId # None

\* No wakeup is lost: a waiting Run that was not cancelled has an open wait
\* that somebody outside can answer or a living child will.
NoLostWakeup ==
    \A r \in Runs :
        /\ state.runs[r].status = "waiting"
        /\ ~state.runs[r].cancellationRequested
        => \E t \in state.runs[r].openWaits : t = r \/ Alive(state, t)

\* No Session is left with nobody to serve: a lane holds living roots of its
\* Session, on a hosted Session all of them, and its head has started or
\* waits for children of its own, whose settlement will start it.  Runs behind
\* the head may have started too: by the settlement of their own children, or
\* to be cancelled.  A start deletes the lane of a Session that is not hosted.
LanesServed ==
    \A x \in Sessions :
        LET lane == state.lanes[x]
            roots == {r \in Runs : Parent[r] = None /\ SessionOf[r] = x /\ Alive(state, r)}
            served == {lane[i] : i \in DOMAIN lane}
        IN /\ \A i, j \in DOMAIN lane : lane[i] = lane[j] => i = j
           /\ served \subseteq roots
           /\ x \in Hosted => served = roots
           /\ lane # << >> /\ state.runs[Head(lane)].status = "queued"
                => UnsettledChildren(state, Head(lane)) # {}

\* runtime.md:112 "Root admission is FIFO per Session across addresses": a
\* queued root leaves its lane only to start or to settle; otherwise nothing
\* ever promotes it.
QueuedKeepTheirTurn ==
    [][\A r \in Runs :
         LET queuedIn(s) == /\ s.runs[r].status = "queued"
                            /\ \E i \in DOMAIN s.lanes[SessionOf[r]] : s.lanes[SessionOf[r]][i] = r
         IN queuedIn(state) => queuedIn(state') \/ state'.runs[r].status # "queued"]_vars

\* Descendants settle before their ancestors: a cancelled Run has no living
\* child.
FamiliesSettle ==
    \A r \in Runs : state.runs[r].status = "cancelled" =>
                        UnsettledChildren(state, r) = {}

\* An execution under a lease that no clock shows as expired loses its
\* authority only by its own command, or by the settlement of a child it
\* waits for: nothing a stale or a second execution does, no client and no
\* other host, takes a Run from it.
AuthorityIsKept ==
    [][\A a \in Activations \ Mortal, r \in Runs :
         (Holding(a, r) /\ ~Holding(a, r)') =>
             \/ fiber'[a][r] # fiber[a][r]
             \/ ~Alive(state', r) \/ state'.runs[r].status = "waiting"
             \/ state.runs[r].cancellationRequested /\ MustWait(state, r)
             \/ \E c \in Children(r) : c \in state'.runs[r].closedWaits
                                             \ state.runs[r].closedWaits]_vars

\* What a crashed host was executing is taken from it, as long as another one
\* serves (up to the bound on claims): the Run has no owner or a later fence.
Takeover ==
    \A a \in Mortal, r \in Runs : \A f \in 1 .. MaxFence[r] - 1 :
        (/\ host[a] = "dead"
         /\ state.workers[WorkerOf[a]] = a
         /\ state.runs[r].ownerId = WorkerOf[a]
         /\ state.runs[r].attemptFence = f)
        ~> (state.runs[r].ownerId = None \/ state.runs[r].attemptFence # f)

\* A Run that may be executed and is not comes to be claimed or settles (up
\* to the bound on claims).
Runnable(r) ==
    /\ state.runs[r].attemptFence < MaxFence[r]
    /\ Alive(state, r) /\ state.runs[r].ownerId = None
    /\ state.runs[r].status = "queued" => Parent[r] # None
    /\ state.runs[r].status # "waiting"
RunnableIsClaimed == \A r \in Runs : Runnable(r) ~> ~Runnable(r)

\* No Run is left behind, by a host that crashed or by the schedulers: both of the
\* above.
WorkIsTaken == Takeover /\ RunnableIsClaimed

\* child-admission.md:46 "replacement hosts observe the same decision": a
\* cancelled Run settles (up to the bound on claims).
CancellationSettles ==
    \A r \in Runs :
        state.runs[r].cancellationRequested
        ~> (~Alive(state, r) \/ state.runs[r].attemptFence >= MaxFence[r])
=============================================================================
