----------------------------- MODULE Operations -----------------------------
(***************************************************************************)
(* The operation ledger of one Run and the execution of one tool batch.    *)
(* Hosts claim the Run, authorize and run the authored calls stage by      *)
(* stage, record each call as an operation before its effect and its       *)
(* outcome after it; they crash, lose their lease, are interrupted, and    *)
(* another host takes over.  Callers cancel and answer approvals,          *)
(* operators resolve and retry operations.  Sources: core/agent/tools,     *)
(* core/durable/driver, runtime/execution, runtime/operation and           *)
(* runtime/state/store of packages/generalist/src.                         *)
(*                                                                         *)
(* A store command is one action; the reads a host makes between two of    *)
(* its commands belong to the second one.  Left out: model turns and their *)
(* responses, hooks, budgets, nested operations, children, fan-outs, the   *)
(* retry policy of an execution (off by default) and Sessions.             *)
(***************************************************************************)
EXTENDS Naturals, FiniteSets

CONSTANTS
    Calls,          \* the number of authored tool calls of the batch
    ParallelSafe,   \* Agent.toolScheduling.parallelSafe
    Gated,          \* calls whose authorization suspends for an approval
    Never,          \* calls with replay policy "never"; the others are safe
    Cancellable,    \* calls whose executor supports cancellation
    Outcomes,       \* what the handler of a call may do
    Resolutions,    \* what an operator may resolve an unknown operation to
    Hosts, NoHost,
    Mortal,         \* hosts that may crash, lose their lease, or shut down
    MaxFaults,      \* bound: crashes, lapses, shutdowns, failed cancellations
    OperatorRetries \* whether an operator retries the operations of a live Run

Call == 1..Calls

ASSUME OperationsAssumption ==
    /\ Calls \in Nat \ {0}
    /\ ParallelSafe \subseteq Call /\ Gated \subseteq Call
    /\ Never \subseteq Call /\ Cancellable \subseteq Call
    /\ Outcomes \in [Call -> SUBSET {"success", "failure", "defect"}]
    /\ Resolutions \subseteq {"Succeeded", "Failed", "Retry"}
    /\ IsFiniteSet(Hosts) /\ NoHost \notin Hosts /\ Mortal \subseteq Hosts
    /\ MaxFaults \in Nat
    /\ OperatorRetries \in BOOLEAN

VARIABLES
    run,        \* the Run's record in the canonical state
    ops,        \* its operations: the record of each call, by operation key
    exec,       \* the execution of the Run every host has under way
    effects,    \* how often the effect of each call took place
    faults

opsVars == <<run, ops, exec, effects, faults>>

-----------------------------------------------------------------------------
(* The canonical state.                                                    *)

Ended == {"succeeded", "failed", "cancelled"}
Statuses == {"running", "cancelling", "waiting", "needs-resolution"} \cup Ended
OperationStatuses ==
    {"absent", "requested", "running", "cancelling", "cancelled",
     "succeeded", "failed", "unknown"}
CompletedStatuses == {"cancelling", "cancelled", "succeeded", "failed", "unknown"}
WaitStatuses == {"absent", "open", "approved", "denied", "cancelled"}
\* "ready" and "approved" are Ready before authorization and before execution.
BatchStates ==
    {"ready", "approved", "waiting", "scheduled", "completed", "unknown", "cancelled"}
Batches == [Call -> BatchStates]

StoredRun ==
    [status : Statuses, owner : Hosts \cup {NoHost},
     cancellationRequested : BOOLEAN, waits : [Call -> WaitStatuses],
     checkpoint : Batches]
Operation == [status : OperationStatuses, resolution : {"none"} \cup Resolutions]

(* The execution of a claim: the batch it has in memory, the responses it  *)
(* was started with, the progress of every call, the first call of the     *)
(* current stage, and the operations it would have to account for.         *)
Phases == {"idle", "loading", "batch", "suspending", "completing", "settling",
           "failing", "reconciling", "leaving"}
Progress == {"authorize", "execute", "recorded", "running", "performed", "done", "failed"}
Execution ==
    [phase : Phases, batch : Batches, answers : [Call -> WaitStatuses],
     pc : [Call -> Progress], at : Nat, active : SUBSET Call, broken : BOOLEAN]

OpsTypeOK ==
    /\ run \in StoredRun
    /\ ops \in [Call -> Operation]
    /\ exec \in [Hosts -> Execution]
    /\ effects \in [Call -> Nat]
    /\ faults \in Nat

Fresh == [c \in Call |-> "ready"]
Idle == [phase |-> "idle", batch |-> Fresh,
         answers |-> [c \in Call |-> "absent"], pc |-> [c \in Call |-> "authorize"],
         at |-> 1, active |-> {}, broken |-> FALSE]

\* A model turn has authored the batch and its host is gone.
OpsInit ==
    /\ run = [status |-> "running", owner |-> NoHost,
              cancellationRequested |-> FALSE,
              waits |-> [c \in Call |-> "absent"], checkpoint |-> Fresh]
    /\ ops = [c \in Call |-> [status |-> "absent", resolution |-> "none"]]
    /\ exec = [h \in Hosts |-> Idle]
    /\ effects = [c \in Call |-> 0]
    /\ faults = 0

HasEnded == run.status \in Ended
HasUnknown == \E c \in Call : ops[c].status = "unknown"
\* requireExecutionClaim: only the current claim may write.  The attempt fence is
\* left out: a host has one execution of the Run here and claims it again when
\* that one has left, so that owning the Run is having the current fence.
Fenced(h) == run.owner = h
\* The journal of an interpreter refuses every call after one that failed.
Accepts(h) == Fenced(h) /\ ~exec[h].broken

\* An execution drops its batch when it ends, and leaves.
To(h, phase) == [exec EXCEPT ![h] = [Idle EXCEPT !.phase = phase, !.active = exec[h].active]]
Leave(h) == exec' = [exec EXCEPT ![h] = [Idle EXCEPT !.phase = "leaving"]]

-----------------------------------------------------------------------------
(* Transitions of the store that several commands share.                   *)

Settle(c, status) == [ops EXCEPT ![c].status = status]

\* Mutant: a call that must not be replayed is retried like any other.
ExpiredMutant(S) ==
    [c \in Call |->
        IF c \in S /\ ops[c].status = "running" THEN [ops[c] EXCEPT !.status = "requested"]
        ELSE ops[c]]
\* expireRunningOperation for every operation of S, and the Run's status then.
Expired(S) ==
    [c \in Call |->
        IF c \in S /\ ops[c].status = "running"
        THEN [ops[c] EXCEPT !.status = IF c \in Never THEN "unknown" ELSE "requested"]
        ELSE ops[c]]
\* Mutant: the Run keeps its status when an operation becomes unknown.
StatusAfterExpiryMutant(S) == run.status
StatusAfterExpiry(S) ==
    IF ~HasEnded /\ \E c \in S \cap Never : ops[c].status = "running"
    THEN "needs-resolution" ELSE run.status

\* Mutant: waits are closed and not cancelled.
CancelWaitsMutant(waits) == [c \in Call |-> IF waits[c] = "open" THEN "closed" ELSE waits[c]]
CancelWaits(waits) == [c \in Call |-> IF waits[c] = "open" THEN "cancelled" ELSE waits[c]]

\* Mutant: operations that have ended are marked as well.
MarkableMutant(o) == {c \in Cancellable : o[c].status # "absent"}
\* markOperationCancellations, on the operations o.
Markable(o) == {c \in Cancellable : o[c].status \in {"requested", "running", "unknown"}}
Marked(o) == [c \in Call |->
    IF c \in Markable(o) THEN [o[c] EXCEPT !.status = "cancelling"] ELSE o[c]]

\* The record r of a Run after cancel, when its operations are o: it ends at once
\* unless an execution owns it or an operation is unfinished.
AfterCancel(r, o) ==
    LET status == IF r.status = "needs-resolution" /\ Markable(o) = {} THEN "needs-resolution"
                  ELSE IF r.cancellationRequested /\ r.status # "needs-resolution"
                  THEN r.status ELSE "cancelling"
        owned == r.owner # NoHost /\ r.status \in {"running", "cancelling"}
        pending == \E c \in Call : Marked(o)[c].status \in {"cancelling", "unknown"}
    IN [r EXCEPT !.cancellationRequested = TRUE,
                 !.waits = CancelWaits(@),
                 !.status = IF owned \/ pending THEN status ELSE "cancelled"]

\* Mutant: a Run ends although an execution still cancels its operations.
FinishedMutant(status) ==
    IF ~run.cancellationRequested THEN [run EXCEPT !.status = status] ELSE [run EXCEPT !.owner = NoHost]
\* The Run after complete or fail: a Run being cancelled waits for its
\* operations, and then is cancelled.
Finished(status) ==
    IF ~run.cancellationRequested THEN [run EXCEPT !.status = status]
    ELSE IF \E c \in Call : ops[c].status \in {"cancelling", "unknown"}
         THEN [run EXCEPT !.owner = NoHost]
         ELSE [run EXCEPT !.status = "cancelled", !.waits = CancelWaits(@)]

-----------------------------------------------------------------------------
(* Claims.                                                                 *)

\* The scheduler claims running and cancelling Runs that nobody owns.
Claim(h) ==
    /\ exec[h].phase = "idle"
    /\ run.owner = NoHost
    /\ run.status \in {"running", "cancelling"}
    /\ run' = [run EXCEPT !.owner = h,
                          !.status = IF run.cancellationRequested
                                     THEN "cancelling" ELSE "running"]
    /\ exec' = [exec EXCEPT ![h] = [Idle EXCEPT !.phase = "loading"]]
    /\ UNCHANGED <<ops, effects, faults>>

\* Mutant: a call that was suspended is taken for done.
ResumedSkips(state, answer) ==
    CASE state \in {"approved", "scheduled"} -> "execute"
      [] state = "ready" \/ (state = "waiting" /\ answer = "approved") -> "authorize"
      [] state = "waiting" /\ answer = "denied" -> "failed"
      [] OTHER -> "done"
\* What resumeBatch does first with a call in each state of the checkpoint.
Resumed(state, answer) ==
    CASE state \in {"approved", "scheduled"} -> "execute"
      [] state \in {"unknown", "cancelled"} -> "failed"
      [] state = "completed" -> "done"
      [] state = "ready" -> "authorize"
      [] state = "waiting" ->
            CASE answer = "approved" -> "authorize"
              [] answer = "denied" -> "failed"
              [] OTHER -> "done"

\* Mutant: every running call is told of the cancellation, not those marked for it.
ToDeliverMutant == {c \in Call : ops[c].status = "running"}
\* The cancellations an execution delivers.
ToDeliver == {c \in Call : ops[c].status = "cancelling"}

\* executeClaim: recover the operations that run, then resume the batch or,
\* when the Run is being cancelled, deliver the cancellations.
Load(h) ==
    /\ exec[h].phase = "loading"
    /\ IF ~Fenced(h) THEN Leave(h) /\ UNCHANGED <<run, ops>>
       ELSE
        /\ ops' = Expired(Call)
        /\ run' = [run EXCEPT !.status = StatusAfterExpiry(Call)]
        /\ exec' = [exec EXCEPT ![h] =
            IF run.cancellationRequested
            THEN [@ EXCEPT !.phase = "reconciling",
                           !.active = ToDeliver]
            ELSE [@ EXCEPT !.phase = IF run'.status = "needs-resolution"
                                     THEN "leaving" ELSE "batch",
                           !.batch = run.checkpoint,
                           !.answers = run.waits,
                           !.pc = [c \in Call |-> Resumed(run.checkpoint[c], run.waits[c])]]]
    /\ UNCHANGED <<effects, faults>>

\* releaseExecution; its failure is ignored.
Release(h) ==
    /\ exec[h].phase = "leaving"
    /\ run' = IF Fenced(h) THEN [run EXCEPT !.owner = NoHost] ELSE run
    /\ exec' = [exec EXCEPT ![h] = Idle]
    /\ UNCHANGED <<ops, effects, faults>>

-----------------------------------------------------------------------------
(* The batch.  Consecutive parallel-safe calls are one stage; every other  *)
(* call is a stage of its own.                                             *)

SameStage(i, j) == i = j \/ (IF i < j THEN i..j ELSE j..i) \subseteq ParallelSafe
Stage(i) == {j \in Call : j >= i /\ SameStage(i, j)}

InStage(h, c, pc) ==
    /\ exec[h].phase = "batch"
    /\ exec[h].pc[c] = pc
    /\ c \in Stage(exec[h].at)
\* The commit semaphore of the interpreter: record and start hold it together.
Permit(h) == \A c \in Call : exec[h].pc[c] # "recorded"

Step(h, c, pc, state) == [exec EXCEPT ![h].pc[c] = pc, ![h].batch[c] = state]

\* A call of the journal was refused: the call of the tool fails, and with it
\* every later call of this journal.
Refused(h, c) ==
    /\ exec' = [exec EXCEPT ![h].pc[c] = "failed", ![h].broken = TRUE]
    /\ UNCHANGED <<run, ops>>

\* The authorizer decides, or the response to an earlier suspension has.
Authorize(h, c) ==
    /\ InStage(h, c, "authorize") /\ Permit(h)
    /\ LET suspends == c \in Gated /\ exec[h].batch[c] = "ready"
           state == IF suspends THEN "waiting" ELSE "approved"
       IN IF ~Accepts(h) THEN Refused(h, c)
          ELSE /\ exec' = Step(h, c, IF suspends THEN "done" ELSE "execute", state)
               /\ run' = [run EXCEPT !.checkpoint = [exec[h].batch EXCEPT ![c] = state]]
               /\ UNCHANGED ops
    /\ UNCHANGED <<effects, faults>>

\* recordOperation: a known key is returned as it is.
Record(h, c) ==
    /\ InStage(h, c, "execute") /\ Permit(h)
    /\ LET new == ops[c].status = "absent"
       IN IF ~Accepts(h) \/ HasEnded \/ (new /\ run.cancellationRequested)
          THEN Refused(h, c)
          ELSE /\ exec' = [exec EXCEPT ![h].pc[c] = "recorded"]
               /\ IF new
                  THEN /\ ops' = Settle(c, "requested")
                       /\ run' = [run EXCEPT !.checkpoint =
                                    [exec[h].batch EXCEPT ![c] = "scheduled"]]
                  ELSE UNCHANGED <<run, ops>>
    /\ UNCHANGED <<effects, faults>>

\* A recorded outcome is replayed; otherwise the operation starts.  Load has
\* expired the operations that ran, so none runs here.
Begin(h, c) ==
    /\ InStage(h, c, "recorded")
    /\ CASE ops[c].status = "succeeded" ->
                exec' = Step(h, c, "done", "completed") /\ UNCHANGED <<run, ops>>
         [] ops[c].status = "failed" ->
                exec' = Step(h, c, "failed", "cancelled") /\ UNCHANGED <<run, ops>>
         [] ops[c].status = "unknown" ->
                exec' = Step(h, c, "failed", "scheduled") /\ UNCHANGED <<run, ops>>
         [] OTHER ->
                IF ~Accepts(h) \/ HasEnded \/ run.cancellationRequested THEN Refused(h, c)
                ELSE /\ exec' = [Step(h, c, "running", "scheduled") EXCEPT ![h].active = @ \cup {c}]
                     /\ ops' = IF ops[c].status = "requested" THEN Settle(c, "running") ELSE ops
                     /\ UNCHANGED run
    /\ UNCHANGED <<effects, faults>>

\* The effect of the tool takes place, also in a host that has lost its claim.
Perform(h, c) ==
    /\ InStage(h, c, "running")
    /\ exec' = [exec EXCEPT ![h].pc[c] = "performed"]
    /\ effects' = [effects EXCEPT ![c] = @ + 1]
    /\ UNCHANGED <<run, ops, faults>>

\* completeOperation with the checkpoint the outcome leads to; an operation
\* that has a status of its own by now keeps it, and the checkpoint too.
Commit(h, c, status, state, pc) ==
    IF ~Accepts(h) THEN Refused(h, c)
    ELSE /\ exec' = [Step(h, c, pc, state) EXCEPT ![h].active = @ \ {c}]
         /\ IF ops[c].status \in CompletedStatuses THEN UNCHANGED <<run, ops>>
            ELSE /\ ops' = Settle(c, status)
                 /\ run' = [run EXCEPT
                        !.checkpoint = [exec[h].batch EXCEPT ![c] = state],
                        !.status = IF status = "unknown" THEN "needs-resolution" ELSE @]

Succeed(h, c) ==
    /\ "success" \in Outcomes[c]
    /\ InStage(h, c, "performed") /\ Permit(h)
    /\ Commit(h, c, "succeeded", "completed", "done")
    /\ UNCHANGED <<effects, faults>>

Reject(h, c) ==
    /\ "failure" \in Outcomes[c]
    /\ InStage(h, c, "running") \/ InStage(h, c, "performed")
    /\ Permit(h)
    /\ Commit(h, c, "failed", "cancelled", "failed")
    /\ UNCHANGED <<effects, faults>>

\* A handler that dies leaves an operation that must never be replayed unknown,
\* and any other one without an outcome.
Defect(h, c) ==
    /\ "defect" \in Outcomes[c]
    /\ InStage(h, c, "running") \/ InStage(h, c, "performed")
    /\ Permit(h)
    /\ IF c \in Never THEN Commit(h, c, "unknown", "unknown", "failed")
       ELSE exec' = [exec EXCEPT ![h].pc[c] = "failed"] /\ UNCHANGED <<run, ops>>
    /\ UNCHANGED <<effects, faults>>

\* Calls that wait for a response the execution was not started with.
Unanswered(h) == {c \in Call : /\ exec[h].batch[c] = "waiting"
                               /\ exec[h].answers[c] \notin {"approved", "denied"}}

\* afterStage: fail, save and suspend for the open waits, or pass the barrier.
StageEnd(h) ==
    LET e == exec[h]
        stage == Stage(e.at)
    IN  /\ e.phase = "batch"
        /\ \A c \in stage : e.pc[c] \in {"done", "failed"}
        /\ IF (\E c \in stage : e.pc[c] = "failed") \/ ~Accepts(h)
           THEN /\ IF run.status = "needs-resolution" THEN Leave(h) ELSE exec' = To(h, "settling")
                /\ UNCHANGED run
           ELSE /\ run' = [run EXCEPT !.checkpoint = e.batch]
                /\ IF Unanswered(h) # {} THEN exec' = [exec EXCEPT ![h].phase = "suspending"]
                   ELSE IF Calls \in stage THEN exec' = To(h, "completing")
                   ELSE \E next \in Call \ stage :
                            next - 1 \in stage /\ exec' = [exec EXCEPT ![h].at = next]
        /\ UNCHANGED <<ops, effects, faults>>

-----------------------------------------------------------------------------
(* How an execution ends.                                                  *)

\* suspend opens the waits of the batch that have no answer yet; one that got
\* its answer in the meantime cannot be reopened.
Suspend(h) ==
    /\ exec[h].phase = "suspending"
    /\ run' = IF ~Fenced(h) \/ HasEnded
                 \/ \E c \in Unanswered(h) : run.waits[c] \notin {"absent", "open"}
              THEN run
              ELSE [run EXCEPT !.status = "waiting", !.owner = NoHost,
                     !.waits = [c \in Call |-> IF c \in Unanswered(h) THEN "open" ELSE @[c]]]
    /\ Leave(h)
    /\ UNCHANGED <<ops, effects, faults>>

Complete(h) ==
    /\ exec[h].phase = "completing"
    /\ run' = IF Fenced(h) /\ ~HasEnded THEN Finished("succeeded") ELSE run
    /\ Leave(h)
    /\ UNCHANGED <<ops, effects, faults>>

\* settleInterruptedExecution: expire what the execution left running, and
\* fail the Run unless an outcome became unknown by it.
SettleActive(h) ==
    LET pending == exec[h].active
    IN  /\ exec[h].phase = "settling"
        /\ IF pending # {} /\ ~Fenced(h) THEN Leave(h) /\ UNCHANGED <<run, ops>>
           ELSE /\ ops' = Expired(pending)
                /\ run' = [run EXCEPT !.status = StatusAfterExpiry(pending)]
                /\ exec' = [exec EXCEPT ![h].active = {},
                       ![h].phase = IF pending # {} /\ run'.status = "needs-resolution"
                                    THEN "leaving" ELSE "failing"]
        /\ UNCHANGED <<effects, faults>>

Fail(h) ==
    /\ exec[h].phase = "failing"
    /\ run' = IF Fenced(h) /\ ~HasEnded THEN Finished("failed") ELSE run
    /\ Leave(h)
    /\ UNCHANGED <<ops, effects, faults>>

\* The fibers of a cancelled execution are interrupted, and it is settled.
Interrupt(h) ==
    /\ exec[h].phase \in {"batch", "suspending", "completing"}
    /\ run.cancellationRequested
    /\ exec' = To(h, "settling")
    /\ UNCHANGED <<run, ops, effects, faults>>

\* A host that shuts down abandons its execution: it only expires what runs.
Abandon(h) ==
    /\ h \in Mortal /\ faults < MaxFaults
    /\ exec[h].phase \in {"batch", "suspending", "completing"}
    /\ ~run.cancellationRequested
    /\ faults' = faults + 1
    /\ IF Fenced(h)
       THEN /\ ops' = Expired(exec[h].active)
            /\ run' = [run EXCEPT !.status = StatusAfterExpiry(exec[h].active)]
       ELSE UNCHANGED <<run, ops>>
    /\ Leave(h)
    /\ UNCHANGED effects

\* The executor answers a cancellation, and the answer is acknowledged.
Acknowledge(h, c) ==
    /\ exec[h].phase = "reconciling"
    /\ c \in exec[h].active
    /\ IF ~Fenced(h) THEN Leave(h) /\ UNCHANGED ops
       ELSE /\ exec' = [exec EXCEPT ![h].active = @ \ {c}]
            /\ IF ops[c].status = "cancelling"
               THEN \E status \in {"cancelled", "succeeded"} : ops' = Settle(c, status)
               ELSE UNCHANGED ops
    /\ UNCHANGED <<run, effects, faults>>

\* The executor fails to cancel, or another cancel interrupts the delivery: the
\* execution ends and the operation stays as it is.
CancelFails(h) ==
    /\ exec[h].phase = "reconciling"
    /\ exec[h].active # {}
    /\ faults < MaxFaults
    /\ faults' = faults + 1
    /\ Leave(h)
    /\ UNCHANGED <<run, ops, effects>>

Reconciled(h) ==
    /\ exec[h].phase = "reconciling"
    /\ exec[h].active = {}
    /\ exec' = To(h, "failing")
    /\ UNCHANGED <<run, ops, effects, faults>>

\* The process of a host is gone; its lease expires before anyone claims.
Crash(h) ==
    /\ h \in Mortal /\ faults < MaxFaults
    /\ exec[h].phase # "idle"
    /\ faults' = faults + 1
    /\ run' = IF Fenced(h) THEN [run EXCEPT !.owner = NoHost] ELSE run
    /\ exec' = [exec EXCEPT ![h] = Idle]
    /\ UNCHANGED <<ops, effects>>

\* A host that cannot renew its lease goes on, without its claim.
LeaseLapses(h) ==
    /\ h \in Mortal /\ faults < MaxFaults
    /\ exec[h].phase # "idle" /\ Fenced(h)
    /\ faults' = faults + 1
    /\ run' = [run EXCEPT !.owner = NoHost]
    /\ UNCHANGED <<ops, exec, effects>>

-----------------------------------------------------------------------------
(* Callers and operators.                                                  *)

Cancel ==
    /\ ~HasEnded
    /\ ops' = Marked(ops)
    /\ run' = AfterCancel(run, ops)
    /\ UNCHANGED <<exec, effects, faults>>

Respond(c) ==
    /\ ~HasEnded /\ ~run.cancellationRequested
    /\ run.waits[c] = "open"
    /\ \E answer \in {"approved", "denied"} :
            run' = [run EXCEPT !.waits[c] = answer, !.status = "running"]
    /\ UNCHANGED <<ops, exec, effects, faults>>

\* An operation is resolved at most once.  The Runtime's resolve applies a cancellation
\* that was requested in the meantime again to what the resolution leaves, the operator's
\* resolveUnknown does not.
Resolve(c) ==
    /\ run.status = "needs-resolution"
    /\ ops[c].status = "unknown" /\ ops[c].resolution = "none"
    /\ \E resolution \in Resolutions, byOperator \in BOOLEAN :
        LET o == [ops EXCEPT ![c] =
                    [resolution |-> resolution,
                     status |-> CASE resolution = "Succeeded" -> "succeeded"
                                  [] resolution = "Failed" -> "failed"
                                  [] OTHER -> "requested"]]
            r == [run EXCEPT !.owner = NoHost,
                    !.status = IF \E d \in Call : o[d].status = "unknown" THEN "needs-resolution"
                               ELSE IF run.cancellationRequested THEN "cancelling" ELSE "running"]
        IN  IF run.cancellationRequested /\ ~byOperator
            THEN ops' = Marked(o) /\ run' = AfterCancel(r, o)
            ELSE ops' = o /\ run' = r
    /\ UNCHANGED <<exec, effects, faults>>

\* operator.retry takes a running safe operation from its execution.
OperatorRetry(c) ==
    /\ OperatorRetries /\ faults < MaxFaults
    /\ ~HasEnded
    /\ ~HasUnknown /\ \A d \in Call : run.waits[d] # "open"
    /\ ops[c].status = "running" /\ c \notin Never
    /\ \A d \in 1..(c - 1) : ~(ops[d].status = "running" /\ d \notin Never)
    /\ faults' = faults + 1
    /\ ops' = Settle(c, "requested")
    /\ run' = [run EXCEPT !.owner = NoHost, !.status = "running"]
    /\ UNCHANGED <<exec, effects>>

-----------------------------------------------------------------------------
CallStep(h) ==
    \E c \in Call : \/ Authorize(h, c) \/ Record(h, c) \/ Begin(h, c) \/ Perform(h, c)
                    \/ Succeed(h, c) \/ Reject(h, c) \/ Defect(h, c)
HostStep(h) ==
    \/ Claim(h) \/ Load(h) \/ Release(h) \/ CallStep(h) \/ StageEnd(h)
    \/ Suspend(h) \/ Complete(h) \/ SettleActive(h) \/ Fail(h) \/ Interrupt(h)
    \/ Reconciled(h) \/ \E c \in Call : Acknowledge(h, c)
HostFault(h) == Abandon(h) \/ CancelFails(h) \/ Crash(h) \/ LeaseLapses(h)
OutsideStep ==
    Cancel \/ \E c \in Call : Respond(c) \/ Resolve(c) \/ OperatorRetry(c)

OpsNext == (\E h \in Hosts : HostStep(h) \/ HostFault(h)) \/ OutsideStep
OpsSpec == OpsInit /\ [][OpsNext]_opsVars
\* Hosts that are up sweep, go on and their handlers return.  Nobody has to
\* cancel, answer or resolve, and no interruption has to be in time.
OpsFairness == \A h \in Hosts : WF_opsVars(HostStep(h))

-----------------------------------------------------------------------------
(* Properties.                                                             *)

\* The effect of a call that must never be replayed takes place once, and once
\* more only if an operator asked for a retry: whatever crashes, lapsed leases,
\* late effects of hosts that were replaced, cancellations and replays happen.
SideEffectOnce ==
    \A c \in Never : effects[c] <= IF ops[c].resolution = "Retry" THEN 2 ELSE 1

\* An operation of unknown outcome keeps its Run in needs-resolution, where an
\* operator finds it, and only such an operation does; unless a cancellation took
\* the Run on to an unfinished operation that can be cancelled: then
\* markOperationCancellations leaves that status, and resolveOperation refuses.  (It
\* holds where a stage asks for one approval at most: with two open waits, respond to
\* one of them takes the Run out of needs-resolution too.)
UnknownNeedsResolution ==
    ~HasEnded =>
        /\ run.status = "needs-resolution" => HasUnknown
        /\ HasUnknown => \/ run.status = "needs-resolution"
                         \/ /\ run.status = "cancelling"
                            /\ \E c \in Cancellable : ops[c].status # "absent"

\* The batch is followed, also by the attempts that resume it.  A call starts only when every
\* call of the stages before it has succeeded, and a gated call only after its
\* approval.  A Run that succeeded has run every call to a success it knows of: the
\* effect took place, or an operator vouched for it.
BatchIsFollowed ==
    /\ \A c \in Call : ops[c].status # "absent" =>
        /\ \A d \in 1..(c - 1) : ~SameStage(d, c) => ops[d].status = "succeeded"
        /\ c \in Gated => run.waits[c] = "approved"
    /\ run.status = "succeeded" =>
        \A c \in Call : /\ ops[c].status = "succeeded"
                        /\ effects[c] > 0 \/ ops[c].resolution = "Succeeded"

\* A recorded outcome and the end of the Run are final: no replay, resolution,
\* cancellation or late completion rewrites them.
OutcomesAreFinal ==
    [][/\ \A c \in Call : ops[c].status \in {"succeeded", "failed", "cancelled"}
                              => ops'[c].status = ops[c].status
       /\ HasEnded => run'.status = run.status]_opsVars

\* A Run never stays for good in a state in which it can go on: it reaches its end,
\* or waits for an answer or for an operator; unless a cancellation took it out of the reach of
\* operators with an unknown operation, as above.
RunSettled ==
    \/ HasEnded \/ run.status \in {"waiting", "needs-resolution"}
    \/ run.status = "cancelling" /\ HasUnknown
RunsSettle == []<>RunSettled

\* The cancellation of an operation is delivered until it is acknowledged,
\* whichever host fails to deliver it; unless the Run waits for an operator, or is
\* parked by a suspension that commits after the cancellation (CancellationSettles
\* of Ownership).
CancellationsAreAcknowledged ==
    []<>\/ run.status \in {"waiting", "needs-resolution"}
        \/ \A c \in Call : ops[c].status # "cancelling"
=============================================================================
