--------------------------- MODULE OperationsProofs ---------------------------
(***************************************************************************)
(* Proofs about Operations for any number of hosts, calls and faults, any  *)
(* batch and any replay policies.                                          *)
(***************************************************************************)
EXTENDS Operations, FiniteSetTheorems, TLAPS

-----------------------------------------------------------------------------
(* Types.                                                                  *)

LEMMA IdleTyped ==
    /\ Idle \in Execution
    /\ \A phase \in Phases, active \in SUBSET Call :
        /\ [Idle EXCEPT !.phase = phase] \in Execution
        /\ [Idle EXCEPT !.phase = phase, !.active = active] \in Execution
<1>1. Idle \in Execution
  BY OperationsAssumption DEF Idle, Fresh, Execution, Phases, Progress, Batches, BatchStates,
                              WaitStatuses, Call
<1> QED
  BY <1>1 DEF Execution

LEMMA ExitTyped ==
    ASSUME OpsTypeOK, NEW h \in Hosts
    PROVE  /\ Leave(h) => exec' \in [Hosts -> Execution]
           /\ \A phase \in Phases : To(h, phase) \in [Hosts -> Execution]
<1>1. exec[h].active \in SUBSET Call /\ "leaving" \in Phases
  BY DEF OpsTypeOK, Execution, Phases
<1> QED
  BY <1>1, IdleTyped DEF OpsTypeOK, Leave, To

\* One field of an execution, of the Run or of an operation changes.
LEMMA ExecutionField ==
    ASSUME OpsTypeOK, NEW h \in Hosts
    PROVE  /\ exec[h] \in Execution
           /\ \A phase \in Phases : [exec EXCEPT ![h].phase = phase] \in [Hosts -> Execution]
           /\ \A at \in Nat : [exec EXCEPT ![h].at = at] \in [Hosts -> Execution]
           /\ \A S \in SUBSET Call : [exec EXCEPT ![h].active = S] \in [Hosts -> Execution]
           /\ \A c \in Call, pc \in Progress :
                [exec EXCEPT ![h].pc[c] = pc] \in [Hosts -> Execution]
<1>1. exec[h] \in Execution
  BY DEF OpsTypeOK
<1>2. \A phase \in Phases : [exec EXCEPT ![h].phase = phase] \in [Hosts -> Execution]
  BY DEF OpsTypeOK, Execution
<1>3. \A at \in Nat : [exec EXCEPT ![h].at = at] \in [Hosts -> Execution]
  BY DEF OpsTypeOK, Execution
<1>4. \A S \in SUBSET Call : [exec EXCEPT ![h].active = S] \in [Hosts -> Execution]
  BY DEF OpsTypeOK, Execution
<1>5. ASSUME NEW c \in Call, NEW pc \in Progress
      PROVE  [exec EXCEPT ![h].pc[c] = pc] \in [Hosts -> Execution]
  <2>1. [exec[h] EXCEPT !.pc = [@ EXCEPT ![c] = pc]] \in Execution
    BY DEF OpsTypeOK, Execution
  <2>2. [exec EXCEPT ![h].pc[c] = pc] = [exec EXCEPT ![h] = [exec[h] EXCEPT !.pc = [@ EXCEPT ![c] = pc]]]
    OBVIOUS
  <2> QED
    BY <2>1, <2>2 DEF OpsTypeOK
<1> QED
  BY <1>1, <1>2, <1>3, <1>4, <1>5

LEMMA RunField ==
    ASSUME OpsTypeOK
    PROVE  /\ \A status \in Statuses : [run EXCEPT !.status = status] \in StoredRun
           /\ \A owner \in Hosts \cup {NoHost} : [run EXCEPT !.owner = owner] \in StoredRun
           /\ \A waits \in [Call -> WaitStatuses] : [run EXCEPT !.waits = waits] \in StoredRun
           /\ \A batch \in Batches, status \in Statuses :
                /\ [run EXCEPT !.checkpoint = batch] \in StoredRun
                /\ [run EXCEPT !.checkpoint = batch, !.status = status] \in StoredRun
           /\ \A status \in Statuses, owner \in Hosts \cup {NoHost} :
                [run EXCEPT !.owner = owner, !.status = status] \in StoredRun
           /\ run.checkpoint \in Batches /\ run.waits \in [Call -> WaitStatuses]
           /\ run.status \in Statuses /\ run.owner \in Hosts \cup {NoHost}
BY DEF OpsTypeOK, StoredRun

LEMMA OperationField ==
    ASSUME OpsTypeOK
    PROVE  \A c \in Call, status \in OperationStatuses : Settle(c, status) \in [Call -> Operation]
BY DEF OpsTypeOK, Settle, Operation

LEMMA BatchField ==
    ASSUME OpsTypeOK, NEW h \in Hosts
    PROVE  /\ exec[h].batch \in Batches /\ exec[h].active \in SUBSET Call
           /\ \A c \in Call, state \in BatchStates : [exec[h].batch EXCEPT ![c] = state] \in Batches
BY DEF OpsTypeOK, Execution, Batches

LEMMA ExpiredTyped ==
    ASSUME OpsTypeOK, NEW S \in SUBSET Call
    PROVE  /\ Expired(S) \in [Call -> Operation]
           /\ StatusAfterExpiry(S) \in Statuses
BY DEF OpsTypeOK, Expired, StatusAfterExpiry, Operation, OperationStatuses, StoredRun, Statuses

LEMMA FinishedTyped ==
    ASSUME OpsTypeOK, NEW status \in Ended
    PROVE  Finished(status) \in StoredRun
BY DEF OpsTypeOK, Finished, StoredRun, Statuses, Ended, CancelWaits, WaitStatuses

LEMMA CancelTyped ==
    ASSUME NEW r \in StoredRun, NEW o \in [Call -> Operation]
    PROVE  Marked(o) \in [Call -> Operation] /\ AfterCancel(r, o) \in StoredRun
<1>1. Marked(o) \in [Call -> Operation]
  BY DEF Marked, Operation, OperationStatuses
<1>2. CancelWaits(r.waits) \in [Call -> WaitStatuses]
  BY DEF CancelWaits, StoredRun, WaitStatuses
<1>3. r.status \in Statuses /\ {"needs-resolution", "cancelling", "cancelled"} \subseteq Statuses
  BY DEF StoredRun, Statuses, Ended
<1> QED
  BY <1>1, <1>2, <1>3 DEF AfterCancel, StoredRun

LEMMA RefusedTyped ==
    ASSUME OpsTypeOK, NEW h \in Hosts, NEW c \in Call, Refused(h, c)
    PROVE  (run \in StoredRun /\ ops \in [Call -> Operation] /\ exec \in [Hosts -> Execution])'
<1> DEFINE e == [exec[h] EXCEPT !.pc = [@ EXCEPT ![c] = "failed"], !.broken = TRUE]
<1>1. e \in Execution
  BY DEF OpsTypeOK, Execution, Progress
<1>2. exec' = [exec EXCEPT ![h] = e]
  BY DEF Refused, OpsTypeOK, Execution
<1> QED
  BY <1>1, <1>2 DEF OpsTypeOK, Refused

\* A call of an execution goes on.
LEMMA StepTyped ==
    ASSUME OpsTypeOK, NEW h \in Hosts, NEW c \in Call, NEW state \in BatchStates,
           NEW pc \in Progress
    PROVE  Step(h, c, pc, state) \in [Hosts -> Execution]
<1> DEFINE e == [exec[h] EXCEPT !.pc = [@ EXCEPT ![c] = pc], !.batch = [@ EXCEPT ![c] = state]]
<1>1. e \in Execution
  BY DEF OpsTypeOK, Execution, Batches
<1>2. Step(h, c, pc, state) = [exec EXCEPT ![h] = e]
  BY DEF Step, OpsTypeOK, Execution
<1> QED
  BY <1>1, <1>2 DEF OpsTypeOK

LEMMA CommitTyped ==
    ASSUME OpsTypeOK, NEW h \in Hosts, NEW c \in Call,
           NEW status \in OperationStatuses, NEW state \in BatchStates, NEW pc \in Progress,
           Commit(h, c, status, state, pc)
    PROVE  (run \in StoredRun /\ ops \in [Call -> Operation] /\ exec \in [Hosts -> Execution])'
<1>1. CASE ~Accepts(h)
  BY <1>1, RefusedTyped DEF Commit
<1>2. CASE Accepts(h)
  <2>1. exec' \in [Hosts -> Execution]
    <3> DEFINE next == Step(h, c, pc, state)
    <3>1. next \in [Hosts -> Execution] /\ exec' = [next EXCEPT ![h].active = @ \ {c}]
      BY <1>2, StepTyped DEF Commit
    <3> HIDE DEF next
    <3> QED
      BY <3>1 DEF Execution
  <2>2. run' \in StoredRun
    <3> DEFINE next == IF status = "unknown" THEN "needs-resolution" ELSE run.status
               batch == [exec[h].batch EXCEPT ![c] = state]
    <3>1. next \in Statuses /\ batch \in Batches
      BY RunField, BatchField DEF Statuses
    <3>2. run' = run \/ run' = [run EXCEPT !.checkpoint = batch, !.status = next]
      BY <1>2 DEF Commit
    <3> HIDE DEF next, batch
    <3>3. CASE run' = [run EXCEPT !.checkpoint = batch, !.status = next]
      BY <3>1, <3>3 DEF OpsTypeOK, StoredRun
    <3> QED
      BY <3>2, <3>3 DEF OpsTypeOK
  <2>3. ops' \in [Call -> Operation]
    BY <1>2, OperationField DEF Commit, OpsTypeOK
  <2> QED
    BY <2>1, <2>2, <2>3
<1> QED
  BY <1>1, <1>2

LEMMA CallStepTyped ==
    ASSUME OpsTypeOK, NEW h \in Hosts, CallStep(h)
    PROVE  OpsTypeOK'
<1> PICK c \in Call : \/ Authorize(h, c) \/ Record(h, c) \/ Begin(h, c) \/ Perform(h, c)
                      \/ Succeed(h, c) \/ Reject(h, c) \/ Defect(h, c)
  BY DEF CallStep
<1>0. /\ \A state \in BatchStates : state \in BatchStates
      /\ {"waiting", "approved", "scheduled", "completed", "cancelled", "unknown"} \subseteq BatchStates
      /\ {"done", "execute", "running", "failed", "recorded", "performed"} \subseteq Progress
      /\ {"requested", "running", "succeeded", "failed", "unknown"} \subseteq OperationStatuses
  BY DEF BatchStates, Progress, OperationStatuses
<1>1. CASE Authorize(h, c)
  <2>1. CASE Refused(h, c)
    BY <1>1, <2>1, RefusedTyped DEF Authorize, OpsTypeOK
  <2>2. CASE ~Refused(h, c)
    <3>1. run' \in StoredRun
      BY <1>0, <1>1, <2>2, RunField, BatchField DEF Authorize
    <3>2. exec' \in [Hosts -> Execution]
      BY <1>0, <1>1, <2>2, StepTyped DEF Authorize
    <3> QED
      BY <1>1, <2>2, <3>1, <3>2 DEF Authorize, OpsTypeOK
  <2> QED
    BY <2>1, <2>2
<1>2. CASE Record(h, c)
  <2>1. CASE Refused(h, c)
    BY <1>2, <2>1, RefusedTyped DEF Record, OpsTypeOK
  <2>2. CASE ~Refused(h, c)
    <3>1. /\ exec' = [exec EXCEPT ![h].pc[c] = "recorded"]
          /\ \/ UNCHANGED <<run, ops>>
             \/ /\ ops' = Settle(c, "requested")
                /\ run' = [run EXCEPT !.checkpoint = [exec[h].batch EXCEPT ![c] = "scheduled"]]
          /\ UNCHANGED <<effects, faults>>
      BY <1>2, <2>2 DEF Record
    <3>2. exec' \in [Hosts -> Execution]
      BY <1>0, <3>1, ExecutionField
    <3>3. ops' \in [Call -> Operation]
      BY <1>0, <3>1, OperationField DEF OpsTypeOK
    <3>4. run' \in StoredRun
      BY <1>0, <3>1, RunField, BatchField DEF OpsTypeOK
    <3> QED
      BY <3>1, <3>2, <3>3, <3>4 DEF OpsTypeOK
  <2> QED
    BY <2>1, <2>2
<1>3. CASE Begin(h, c)
  <2>1. CASE Refused(h, c)
    BY <1>3, <2>1, RefusedTyped DEF Begin, OpsTypeOK
  <2>2. CASE ~Refused(h, c)
    <3>1. exec' \in [Hosts -> Execution]
      <4>1. CASE exec' = [Step(h, c, "running", "scheduled") EXCEPT ![h].active = @ \cup {c}]
        <5> DEFINE next == Step(h, c, "running", "scheduled")
        <5>1. next \in [Hosts -> Execution] /\ exec' = [next EXCEPT ![h].active = @ \cup {c}]
          BY <1>0, <4>1, StepTyped
        <5> HIDE DEF next
        <5> QED
          BY <5>1 DEF Execution
      <4>2. CASE \E pc \in Progress, state \in BatchStates : exec' = Step(h, c, pc, state)
        BY <4>2, StepTyped
      <4> QED
        BY <1>0, <1>3, <2>2, <4>1, <4>2 DEF Begin
    <3>2. ops' \in [Call -> Operation]
      BY <1>0, <1>3, <2>2, OperationField DEF Begin, OpsTypeOK
    <3>3. run' = run /\ effects' = effects /\ faults' = faults
      BY <1>3, <2>2 DEF Begin
    <3> QED
      BY <3>1, <3>2, <3>3 DEF OpsTypeOK
  <2> QED
    BY <2>1, <2>2
<1>4. CASE Perform(h, c)
  <2>1. exec' \in [Hosts -> Execution]
    BY <1>0, <1>4, ExecutionField DEF Perform
  <2> QED
    BY <1>4, <2>1 DEF Perform, OpsTypeOK
<1>5. CASE Succeed(h, c)
  BY <1>0, <1>5, CommitTyped DEF Succeed, OpsTypeOK
<1>6. CASE Reject(h, c)
  BY <1>0, <1>6, CommitTyped DEF Reject, OpsTypeOK
<1>7. CASE Defect(h, c)
  <2>1. CASE c \in Never
    BY <1>0, <1>7, <2>1, CommitTyped DEF Defect, OpsTypeOK
  <2>2. CASE c \notin Never
    <3>1. exec' = [exec EXCEPT ![h].pc[c] = "failed"]
      BY <1>7, <2>2 DEF Defect
    <3>2. exec' \in [Hosts -> Execution]
      BY <1>0, <3>1, ExecutionField
    <3> QED
      BY <1>7, <2>2, <3>2 DEF Defect, OpsTypeOK
  <2> QED
    BY <2>1, <2>2
<1> QED
  BY <1>1, <1>2, <1>3, <1>4, <1>5, <1>6, <1>7

LEMMA ResumedTyped ==
    ASSUME NEW state \in BatchStates, NEW answer \in WaitStatuses
    PROVE  Resumed(state, answer) \in Progress
BY DEF Resumed, Progress, BatchStates

LEMMA HostStepTyped ==
    ASSUME OpsTypeOK, NEW h \in Hosts, HostStep(h)
    PROVE  OpsTypeOK'
<1>1. CASE Claim(h)
  <2>1. "loading" \in Phases /\ "cancelling" \in Statuses /\ "running" \in Statuses
    BY DEF Phases, Statuses
  <2>2. exec' \in [Hosts -> Execution]
    BY <1>1, <2>1, IdleTyped DEF Claim, OpsTypeOK
  <2>3. run' \in StoredRun
    <3> DEFINE next == IF run.cancellationRequested THEN "cancelling" ELSE "running"
    <3>1. next \in Statuses /\ run' = [run EXCEPT !.owner = h, !.status = next]
      BY <1>1, <2>1 DEF Claim
    <3> HIDE DEF next
    <3> QED
      BY <3>1, RunField
  <2> QED
    BY <1>1, <2>2, <2>3 DEF Claim, OpsTypeOK
<1>2. CASE Load(h)
  <2>1. CASE ~Fenced(h)
    BY <1>2, <2>1, ExitTyped DEF Load, OpsTypeOK
  <2>2. CASE Fenced(h)
    <3>1. run' \in StoredRun /\ ops' \in [Call -> Operation]
      BY <1>2, <2>2, ExpiredTyped DEF Load, OpsTypeOK, StoredRun
    <3>2. exec' \in [Hosts -> Execution]
      <4> DEFINE pcs == [c \in Call |-> Resumed(run.checkpoint[c], run.waits[c])]
                 next == IF run'.status = "needs-resolution" THEN "leaving" ELSE "batch"
      <4>1. run.checkpoint \in Batches /\ run.waits \in [Call -> WaitStatuses]
        BY RunField
      <4>2. pcs \in [Call -> Progress] /\ next \in Phases
        BY <4>1, ResumedTyped DEF Batches, Phases
      <4>3. ToDeliver \in SUBSET Call /\ "reconciling" \in Phases
        BY DEF ToDeliver, Phases
      <4>4. \/ exec' = [exec EXCEPT ![h] = [@ EXCEPT !.phase = "reconciling", !.active = ToDeliver]]
            \/ exec' = [exec EXCEPT ![h] = [@ EXCEPT !.phase = next, !.batch = run.checkpoint,
                                                     !.answers = run.waits, !.pc = pcs]]
        BY <1>2, <2>2 DEF Load
      <4> HIDE DEF pcs, next
      <4>5. /\ exec[h] \in Execution
            /\ [exec[h] EXCEPT !.phase = "reconciling", !.active = ToDeliver] \in Execution
            /\ [exec[h] EXCEPT !.phase = next, !.batch = run.checkpoint,
                               !.answers = run.waits, !.pc = pcs] \in Execution
        BY <4>1, <4>2, <4>3 DEF OpsTypeOK, Execution
      <4> QED
        BY <4>4, <4>5 DEF OpsTypeOK
    <3> QED
      BY <1>2, <3>1, <3>2 DEF Load, OpsTypeOK
  <2> QED
    BY <2>1, <2>2
<1>3. CASE Release(h)
  <2>1. exec' \in [Hosts -> Execution] /\ run' \in StoredRun
    BY <1>3, IdleTyped, RunField DEF Release, OpsTypeOK
  <2> QED
    BY <1>3, <2>1 DEF Release, OpsTypeOK
<1>4. CASE CallStep(h)
  BY <1>4, CallStepTyped
<1>5. CASE StageEnd(h)
  <2>1. run' \in StoredRun
    <3>1. run' = run \/ run' = [run EXCEPT !.checkpoint = exec[h].batch]
      BY <1>5 DEF StageEnd
    <3>2. exec[h].batch \in Batches /\ run.status \in Statuses
      BY RunField, BatchField
    <3>3. [run EXCEPT !.checkpoint = exec[h].batch] \in StoredRun
      BY <3>2, RunField
    <3> QED
      BY <3>1, <3>3 DEF OpsTypeOK
  <2>2. /\ {"suspending", "completing", "settling"} \subseteq Phases
        /\ Call \subseteq Nat
    BY OperationsAssumption DEF Phases, Call
  <2>3. \/ Leave(h) \/ \E phase \in Phases : exec' = To(h, phase)
        \/ exec' = [exec EXCEPT ![h].phase = "suspending"]
        \/ \E next \in Nat : exec' = [exec EXCEPT ![h].at = next]
    BY <1>5, <2>2 DEF StageEnd
  <2>4. exec' \in [Hosts -> Execution]
    <3>1. CASE exec' = [exec EXCEPT ![h].phase = "suspending"]
      BY <2>2, <3>1, ExecutionField
    <3>2. CASE \E next \in Nat : exec' = [exec EXCEPT ![h].at = next]
      BY <3>2, ExecutionField
    <3>3. CASE \E phase \in Phases : exec' = To(h, phase)
      BY <3>3, ExitTyped
    <3> QED
      BY <2>3, <3>1, <3>2, <3>3, ExitTyped
  <2> QED
    BY <1>5, <2>1, <2>4 DEF StageEnd, OpsTypeOK
<1>6. CASE Suspend(h)
  BY <1>6, ExitTyped DEF Suspend, OpsTypeOK, StoredRun, Statuses, WaitStatuses
<1>7. CASE Complete(h)
  BY <1>7, ExitTyped, FinishedTyped DEF Complete, OpsTypeOK, Ended
<1>8. CASE SettleActive(h)
  <2>1. exec[h].active \in SUBSET Call
    BY DEF OpsTypeOK, Execution
  <2>2. run' \in StoredRun /\ ops' \in [Call -> Operation]
    BY <1>8, <2>1, ExpiredTyped DEF SettleActive, OpsTypeOK, StoredRun
  <2>3. exec' \in [Hosts -> Execution]
    <3>1. CASE Leave(h)
      BY <3>1, ExitTyped
    <3>2. CASE ~Leave(h)
      BY <1>8, <3>2 DEF SettleActive, OpsTypeOK, Execution, Phases
    <3> QED
      BY <3>1, <3>2
  <2> QED
    BY <1>8, <2>2, <2>3 DEF SettleActive, OpsTypeOK
<1>9. CASE Fail(h)
  BY <1>9, ExitTyped, FinishedTyped DEF Fail, OpsTypeOK, Ended
<1>10. CASE Interrupt(h)
  BY <1>10, ExitTyped DEF Interrupt, OpsTypeOK, Phases
<1>11. CASE Reconciled(h)
  BY <1>11, ExitTyped DEF Reconciled, OpsTypeOK, Phases
<1>12. ASSUME NEW c \in Call, Acknowledge(h, c) PROVE OpsTypeOK'
  <2>1. exec' \in [Hosts -> Execution]
    <3>1. Leave(h) \/ exec' = [exec EXCEPT ![h].active = @ \ {c}]
      BY <1>12 DEF Acknowledge
    <3>2. exec[h].active \ {c} \in SUBSET Call
      BY BatchField
    <3>3. CASE exec' = [exec EXCEPT ![h].active = exec[h].active \ {c}]
      BY <3>2, <3>3, ExecutionField
    <3> QED
      BY <3>1, <3>3, ExitTyped
  <2>2. ops' \in [Call -> Operation]
    BY <1>12, OperationField DEF Acknowledge, OperationStatuses, OpsTypeOK
  <2> QED
    BY <1>12, <2>1, <2>2 DEF Acknowledge, OpsTypeOK
<1> QED
  BY <1>1, <1>2, <1>3, <1>4, <1>5, <1>6, <1>7, <1>8, <1>9, <1>10, <1>11, <1>12 DEF HostStep

LEMMA HostFaultTyped ==
    ASSUME OpsTypeOK, NEW h \in Hosts, HostFault(h)
    PROVE  OpsTypeOK'
<1>1. CASE Abandon(h)
  <2>1. exec[h].active \in SUBSET Call
    BY DEF OpsTypeOK, Execution
  <2> QED
    BY <1>1, <2>1, ExitTyped, ExpiredTyped DEF Abandon, OpsTypeOK, StoredRun
<1>2. CASE CancelFails(h)
  BY <1>2, ExitTyped DEF CancelFails, OpsTypeOK
<1>3. CASE Crash(h)
  <2>1. exec' \in [Hosts -> Execution]
    BY <1>3, IdleTyped DEF Crash, OpsTypeOK
  <2>2. run' \in StoredRun
    BY <1>3, RunField DEF Crash, OpsTypeOK
  <2> QED
    BY <1>3, <2>1, <2>2, OperationsAssumption DEF Crash, OpsTypeOK
<1>4. CASE LeaseLapses(h)
  BY <1>4 DEF LeaseLapses, OpsTypeOK, StoredRun
<1> QED
  BY <1>1, <1>2, <1>3, <1>4 DEF HostFault

\* What a resolution leaves, before a cancellation is applied to it again.
Resolved(c, o, r) ==
    /\ o \in [Call -> Operation] /\ r \in StoredRun
    /\ \A d \in Call \ {c} : o[d] = ops[d]
    /\ o[c].resolution \in Resolutions
    /\ o[c].status \in {"succeeded", "failed", "requested"}
    /\ o[c].status = "requested" => o[c].resolution = "Retry"
    /\ o[c].status = "succeeded" => o[c].resolution = "Succeeded"
    /\ r.owner = NoHost /\ r.cancellationRequested = run.cancellationRequested
    /\ r.waits = run.waits /\ r.checkpoint = run.checkpoint
    /\ r.status \in {"needs-resolution", "cancelling", "running"}
    /\ r.status = "needs-resolution" <=> \E d \in Call : o[d].status = "unknown"
    /\ r.status = "cancelling" => run.cancellationRequested

LEMMA ResolutionTyped ==
    ASSUME OpsTypeOK, NEW c \in Call, Resolve(c)
    PROVE  \E o \in [Call -> Operation], r \in StoredRun :
              /\ Resolved(c, o, r)
              /\ \/ /\ run.cancellationRequested
                    /\ ops' = Marked(o) /\ run' = AfterCancel(r, o)
                 \/ ops' = o /\ run' = r
<1> PICK resolution \in Resolutions, byOperator \in BOOLEAN :
        LET o == [ops EXCEPT ![c] =
                    [resolution |-> resolution,
                     status |-> CASE resolution = "Succeeded" -> "succeeded"
                                  [] resolution = "Failed" -> "failed"
                                  [] OTHER -> "requested"]]
            r == [run EXCEPT !.owner = NoHost,
                    !.status = IF \E d \in Call : o[d].status = "unknown" THEN "needs-resolution"
                               ELSE IF run.cancellationRequested THEN "cancelling" ELSE "running"]
        IN  IF run.cancellationRequested /\ ~byOperator
            THEN ops' = Marked(o) /\ run' = AfterCancel(r, o)
            ELSE ops' = o /\ run' = r
  BY DEF Resolve
<1> DEFINE status == CASE resolution = "Succeeded" -> "succeeded"
                       [] resolution = "Failed" -> "failed"
                       [] OTHER -> "requested"
           o == [ops EXCEPT ![c] = [resolution |-> resolution, status |-> status]]
           next == IF \E d \in Call : o[d].status = "unknown" THEN "needs-resolution"
                   ELSE IF run.cancellationRequested THEN "cancelling" ELSE "running"
           r == [run EXCEPT !.owner = NoHost, !.status = next]
<1>1. \/ run.cancellationRequested /\ ops' = Marked(o) /\ run' = AfterCancel(r, o)
      \/ ops' = o /\ run' = r
  OBVIOUS
<1>2. /\ status \in {"succeeded", "failed", "requested"}
      /\ status = "requested" => resolution = "Retry"
      /\ status = "succeeded" => resolution = "Succeeded"
  BY OperationsAssumption
<1> HIDE DEF status
<1>3. [resolution |-> resolution, status |-> status] \in Operation
  BY <1>2 DEF Operation, OperationStatuses
<1>4. /\ o \in [Call -> Operation]
      /\ \A d \in Call \ {c} : o[d] = ops[d]
      /\ o[c].resolution = resolution /\ o[c].status = status
  BY <1>3 DEF OpsTypeOK
<1>5. /\ next \in {"needs-resolution", "cancelling", "running"}
      /\ next = "needs-resolution" <=> \E d \in Call : o[d].status = "unknown"
      /\ next = "cancelling" => run.cancellationRequested
  OBVIOUS
<1> HIDE DEF o, next
<1>6. /\ r \in StoredRun /\ r.owner = NoHost /\ r.status = next
      /\ r.cancellationRequested = run.cancellationRequested
      /\ r.waits = run.waits /\ r.checkpoint = run.checkpoint
  BY <1>5 DEF OpsTypeOK, StoredRun, Statuses
<1>7. Resolved(c, o, r)
  BY <1>2, <1>4, <1>5, <1>6 DEF Resolved
<1> QED
  BY <1>1, <1>4, <1>6, <1>7

LEMMA OutsideTyped ==
    ASSUME OpsTypeOK, OutsideStep
    PROVE  OpsTypeOK'
<1>1. CASE Cancel
  BY <1>1, CancelTyped DEF Cancel, OpsTypeOK
<1>2. ASSUME NEW c \in Call, Respond(c) PROVE OpsTypeOK'
  <2> PICK answer \in {"approved", "denied"} :
          run' = [run EXCEPT !.waits[c] = answer, !.status = "running"]
    BY <1>2 DEF Respond
  <2>1. [run.waits EXCEPT ![c] = answer] \in [Call -> WaitStatuses] /\ "running" \in Statuses
    BY RunField DEF WaitStatuses, Statuses
  <2>2. run' = [run EXCEPT !.waits = [@ EXCEPT ![c] = answer], !.status = "running"]
    OBVIOUS
  <2>3. run' \in StoredRun
    BY <2>1, <2>2 DEF OpsTypeOK, StoredRun
  <2> QED
    BY <1>2, <2>3 DEF Respond, OpsTypeOK
<1>3. ASSUME NEW c \in Call, Resolve(c) PROVE OpsTypeOK'
  <2> PICK o \in [Call -> Operation], r \in StoredRun :
          \/ ops' = Marked(o) /\ run' = AfterCancel(r, o)
          \/ ops' = o /\ run' = r
    BY <1>3, ResolutionTyped
  <2>1. ops' \in [Call -> Operation] /\ run' \in StoredRun
    BY CancelTyped
  <2> QED
    BY <1>3, <2>1 DEF Resolve, OpsTypeOK
<1>4. ASSUME NEW c \in Call, OperatorRetry(c) PROVE OpsTypeOK'
  <2>1. "running" \in Statuses /\ "requested" \in OperationStatuses
    BY DEF Statuses, OperationStatuses
  <2>2. ops' \in [Call -> Operation]
    BY <1>4, <2>1, OperationField DEF OperatorRetry
  <2>3. run' = [run EXCEPT !.owner = NoHost, !.status = "running"]
    BY <1>4 DEF OperatorRetry
  <2>4. run' \in StoredRun
    BY <2>1, <2>3, RunField
  <2> QED
    BY <1>4, <2>2, <2>4, OperationsAssumption DEF OperatorRetry, OpsTypeOK
<1> QED
  BY <1>1, <1>2, <1>3, <1>4 DEF OutsideStep

LEMMA OpsInitTyped == OpsInit => OpsTypeOK
<1> SUFFICES ASSUME OpsInit PROVE OpsTypeOK
  OBVIOUS
<1>1. exec \in [Hosts -> Execution]
  BY IdleTyped DEF OpsInit
<1>2. run \in StoredRun
  BY DEF OpsInit, StoredRun, Statuses, WaitStatuses, Fresh, Batches, BatchStates
<1>3. ops \in [Call -> Operation] /\ effects \in [Call -> Nat] /\ faults \in Nat
  BY DEF OpsInit, Operation, OperationStatuses
<1> QED
  BY <1>1, <1>2, <1>3 DEF OpsTypeOK

\* Every reachable state is one the code declares: statuses, owners, checkpoints
\* and what an execution holds in memory.
THEOREM OpsTyped == OpsSpec => []OpsTypeOK
<1>1. OpsTypeOK /\ [OpsNext]_opsVars => OpsTypeOK'
  <2> SUFFICES ASSUME OpsTypeOK, [OpsNext]_opsVars PROVE OpsTypeOK'
    OBVIOUS
  <2>1. CASE UNCHANGED opsVars
    BY <2>1 DEF opsVars, OpsTypeOK
  <2> QED
    BY <2>1, HostStepTyped, HostFaultTyped, OutsideTyped DEF OpsNext
<1> QED
  BY <1>1, OpsInitTyped, PTL DEF OpsSpec

-----------------------------------------------------------------------------
(* An effect that must not be repeated takes place once, and recorded      *)
(* outcomes are final.                                                     *)


\* What the Run's record says fits its operations and its executions: a waiting
\* Run has no owner, needs-resolution has a reason, the execution that ended a Run
\* leaves, and operations are cancelled only on request.
RunInv ==
    /\ run.status = "waiting" => run.owner = NoHost
    /\ run.status = "needs-resolution" => HasUnknown
    /\ \A h \in Hosts : HasEnded /\ Fenced(h) => exec[h].phase = "leaving"
    /\ \A c \in Call : ops[c].status \in {"cancelling", "cancelled"} => run.cancellationRequested

\* An operation that runs under the present claim was started by it, and a call
\* that is past its record has one.
CallInv ==
    \A h \in Hosts, c \in Call :
        exec[h].phase = "batch" =>
            /\ Fenced(h) /\ ops[c].status = "running"
                    => exec[h].pc[c] \notin {"authorize", "execute", "recorded"}
            /\ exec[h].pc[c] = "recorded" => ops[c].status # "absent"

\* The hosts that have started the call c and have not got to its effect yet, and
\* the effects that its record accounts for.
Starting(c) == {h \in Hosts : exec[h].phase = "batch" /\ exec[h].pc[c] = "running"}
Allowed(c) ==
    (IF ops[c].status \in {"absent", "requested"} THEN 0 ELSE 1)
        + (IF ops[c].resolution = "Retry" THEN 1 ELSE 0)
EffectsCovered == \A c \in Never : effects[c] + Cardinality(Starting(c)) <= Allowed(c)

OpsInv == OpsTypeOK /\ RunInv /\ CallInv /\ EffectsCovered

-----------------------------------------------------------------------------
(* The executions of other hosts, and how an execution ends.               *)

LEMMA Exits ==
    ASSUME OpsTypeOK, NEW h \in Hosts, NEW phase \in Phases,
           Leave(h) \/ exec' = To(h, phase)
    PROVE  /\ \A k \in Hosts \ {h} : exec'[k] = exec[k]
           /\ exec'[h].phase \in {"leaving", phase}
           /\ exec'[h].phase = "leaving" \/ exec' = To(h, phase)
BY DEF OpsTypeOK, Leave, To, Idle

LEMMA OnlyUnknownIsAdded ==
    ASSUME OpsTypeOK, NEW S \in SUBSET Call, ops' = Expired(S),
           run' = [run EXCEPT !.status = StatusAfterExpiry(S)]
    PROVE  /\ \A c \in Call : /\ ops'[c].resolution = ops[c].resolution
                              /\ ops'[c].status = ops[c].status
                                 \/ /\ ops[c].status = "running"
                                    /\ ops'[c].status = IF c \in Never THEN "unknown" ELSE "requested"
           /\ HasUnknown => HasUnknown'
           /\ run'.status = run.status \/ (~HasEnded /\ run'.status = "needs-resolution" /\ HasUnknown')
           /\ run'.owner = run.owner /\ run'.cancellationRequested = run.cancellationRequested
<1>1. \A c \in Call : /\ ops'[c].resolution = ops[c].resolution
                      /\ ops'[c].status = ops[c].status
                         \/ /\ ops[c].status = "running"
                            /\ ops'[c].status = IF c \in Never THEN "unknown" ELSE "requested"
  BY DEF OpsTypeOK, Operation, Expired
<1>2. HasUnknown => HasUnknown'
  BY <1>1 DEF HasUnknown
<1>3. /\ run'.status = StatusAfterExpiry(S)
      /\ run'.owner = run.owner /\ run'.cancellationRequested = run.cancellationRequested
  BY DEF OpsTypeOK, StoredRun
<1>4. ASSUME NEW c \in S \cap Never, ops[c].status = "running" PROVE HasUnknown'
  BY <1>4 DEF OpsTypeOK, Operation, Expired, HasUnknown
<1> QED
  BY <1>1, <1>2, <1>3, <1>4 DEF StatusAfterExpiry

-----------------------------------------------------------------------------
(* RunInv.                                                                 *)

\* A step that keeps the operations' unknown and cancelled outcomes.
LEMMA RunInvKept ==
    ASSUME RunInv,
           run'.status = run.status, run'.owner \in {run.owner, NoHost},
           run.cancellationRequested => run'.cancellationRequested,
           HasUnknown => HasUnknown',
           \A c \in Call : ops'[c].status \in {"cancelling", "cancelled"}
                                => ops[c].status \in {"cancelling", "cancelled"},
           \A k \in Hosts : Fenced(k) /\ exec[k].phase = "leaving"
                                => exec'[k].phase = "leaving" \/ run'.owner # k
    PROVE  RunInv'
BY OperationsAssumption DEF RunInv, HasEnded, Fenced, HasUnknown

-----------------------------------------------------------------------------
(* The steps of a call, by what they change.                               *)

Moves(h, c, pc) ==
    /\ \A k \in Hosts \ {h} : exec'[k] = exec[k]
    /\ exec'[h].phase = exec[h].phase
    /\ exec'[h].pc = [exec[h].pc EXCEPT ![c] = pc]
KeepsRun == run'.owner = run.owner /\ run'.cancellationRequested = run.cancellationRequested

Quiet(h, c) ==
    /\ \/ \E pc \in {"done", "failed"} : Moves(h, c, pc)
       \/ Moves(h, c, "execute") /\ exec[h].pc[c] = "authorize"
    /\ ops' = ops /\ effects' = effects /\ run'.status = run.status
Recording(h, c) ==
    /\ Moves(h, c, "recorded") /\ exec[h].pc[c] = "execute" /\ Fenced(h)
    /\ \/ ops[c].status # "absent" /\ ops' = ops
       \/ ops[c].status = "absent" /\ ops' = Settle(c, "requested")
    /\ effects' = effects /\ run'.status = run.status
Beginning(h, c) ==
    /\ Moves(h, c, "running") /\ exec[h].pc[c] = "recorded" /\ Fenced(h)
    /\ ~run.cancellationRequested
    /\ ops[c].status \notin {"succeeded", "failed", "unknown"}
    /\ ops' = IF ops[c].status = "requested" THEN Settle(c, "running") ELSE ops
    /\ effects' = effects /\ run'.status = run.status
Performing(h, c) ==
    /\ Moves(h, c, "performed") /\ exec[h].pc[c] = "running"
    /\ ops' = ops /\ effects' = [effects EXCEPT ![c] = @ + 1] /\ run'.status = run.status
Committing(h, c) ==
    /\ \E pc \in {"done", "failed"} : Moves(h, c, pc)
    /\ Fenced(h) /\ ops[c].status \notin CompletedStatuses
    /\ \E status \in {"succeeded", "failed", "unknown"} :
        /\ ops' = Settle(c, status)
        /\ run'.status = IF status = "unknown" THEN "needs-resolution" ELSE run.status
    /\ effects' = effects

LEMMA Moving ==
    ASSUME OpsTypeOK, NEW h \in Hosts, NEW c \in Call, NEW pc
    PROVE  /\ exec' = [exec EXCEPT ![h].pc[c] = pc] => Moves(h, c, pc)
           /\ \A state : exec' = Step(h, c, pc, state) => Moves(h, c, pc)
           /\ \A state, S : exec' = [Step(h, c, pc, state) EXCEPT ![h].active = S] => Moves(h, c, pc)
           /\ Refused(h, c) => Moves(h, c, "failed")
<1>1. exec[h] \in Execution /\ exec \in [Hosts -> Execution]
  BY DEF OpsTypeOK
<1>2. exec' = [exec EXCEPT ![h].pc[c] = pc] => Moves(h, c, pc)
  BY <1>1 DEF Moves, Execution
<1>3. \A state : exec' = Step(h, c, pc, state) => Moves(h, c, pc)
  BY <1>1 DEF Moves, Step, Execution
<1>4. \A state, S : exec' = [Step(h, c, pc, state) EXCEPT ![h].active = S] => Moves(h, c, pc)
  BY <1>1 DEF Moves, Step, Execution
<1>5. Refused(h, c) => Moves(h, c, "failed")
  BY <1>1 DEF Moves, Refused, Execution
<1> QED
  BY <1>2, <1>3, <1>4, <1>5

LEMMA Committed ==
    ASSUME OpsTypeOK, NEW h \in Hosts, NEW c \in Call, NEW status \in {"succeeded", "failed", "unknown"},
           NEW state, NEW pc \in {"done", "failed"}, Commit(h, c, status, state, pc), effects' = effects
    PROVE  KeepsRun /\ (Quiet(h, c) \/ Committing(h, c))
<1>1. CASE ~Accepts(h)
  <2>1. Refused(h, c)
    BY <1>1 DEF Commit
  <2> QED
    BY <2>1, Moving DEF Refused, Quiet, KeepsRun
<1>2. CASE Accepts(h)
  <2>1. Moves(h, c, pc)
    BY <1>2, Moving DEF Commit
  <2>2. CASE ops[c].status \in CompletedStatuses
    BY <1>2, <2>1, <2>2 DEF Commit, Quiet, KeepsRun
  <2>3. CASE ops[c].status \notin CompletedStatuses
    BY <1>2, <2>1, <2>3 DEF Commit, Committing, KeepsRun, Accepts, OpsTypeOK, StoredRun
  <2> QED
    BY <2>2, <2>3
<1> QED
  BY <1>1, <1>2

LEMMA CallSteps ==
    ASSUME OpsTypeOK, NEW h \in Hosts, CallStep(h)
    PROVE  /\ exec[h].phase = "batch" /\ KeepsRun
           /\ \E c \in Call : \/ Quiet(h, c) \/ Recording(h, c) \/ Beginning(h, c)
                              \/ Performing(h, c) \/ Committing(h, c)
<1> PICK c \in Call : \/ Authorize(h, c) \/ Record(h, c) \/ Begin(h, c) \/ Perform(h, c)
                      \/ Succeed(h, c) \/ Reject(h, c) \/ Defect(h, c)
  BY DEF CallStep
<1>1. exec[h].phase = "batch"
  BY DEF Authorize, Record, Begin, Perform, Succeed, Reject, Defect, InStage
<1>2. Refused(h, c) /\ effects' = effects => KeepsRun /\ Quiet(h, c)
  BY Moving DEF Refused, Quiet, KeepsRun
<1>3. CASE Authorize(h, c)
  <2>1. effects' = effects
    BY <1>3 DEF Authorize
  <2>2. CASE ~Refused(h, c)
    <3>1. /\ exec[h].pc[c] = "authorize"
          /\ \E pc \in {"execute", "done"} : \E state : exec' = Step(h, c, pc, state)
          /\ ops' = ops
          /\ run' = [run EXCEPT !.checkpoint = run'.checkpoint]
      BY <1>3, <2>2 DEF Authorize, InStage, OpsTypeOK, StoredRun
    <3> QED
      BY <1>1, <2>1, <3>1, Moving DEF Quiet, KeepsRun, OpsTypeOK, StoredRun
  <2> QED
    BY <1>1, <1>2, <2>1, <2>2
<1>4. CASE Record(h, c)
  <2>1. effects' = effects
    BY <1>4 DEF Record
  <2>2. CASE ~Refused(h, c)
    <3>1. /\ exec' = [exec EXCEPT ![h].pc[c] = "recorded"]
          /\ exec[h].pc[c] = "execute" /\ Fenced(h)
      BY <1>4, <2>2 DEF Record, InStage, Accepts
    <3>2. /\ \/ ops[c].status # "absent" /\ ops' = ops
             \/ ops[c].status = "absent" /\ ops' = Settle(c, "requested")
          /\ run' = run \/ run' = [run EXCEPT !.checkpoint = run'.checkpoint]
      BY <1>4, <2>2 DEF Record, OpsTypeOK, StoredRun
    <3>3. Moves(h, c, "recorded")
      BY <3>1, Moving
    <3> QED
      BY <1>1, <2>1, <3>1, <3>2, <3>3 DEF Recording, KeepsRun, OpsTypeOK, StoredRun
  <2> QED
    BY <1>1, <1>2, <2>1, <2>2
<1>5. CASE Begin(h, c)
  <2>1. effects' = effects
    BY <1>5 DEF Begin
  <2>2. CASE ~Refused(h, c)
    <3>1. run' = run /\ exec[h].pc[c] = "recorded"
      BY <1>5, <2>2 DEF Begin, InStage
    <3>2. CASE ops[c].status \in {"succeeded", "failed", "unknown"}
      <4>1. ops' = ops /\ \E pc \in {"done", "failed"} : \E state : exec' = Step(h, c, pc, state)
        BY <1>5, <3>2 DEF Begin
      <4> QED
        BY <1>1, <2>1, <3>1, <4>1, Moving DEF Quiet, KeepsRun
    <3>3. CASE ops[c].status \notin {"succeeded", "failed", "unknown"}
      <4>1. /\ Accepts(h) /\ ~run.cancellationRequested
            /\ exec' = [Step(h, c, "running", "scheduled") EXCEPT ![h].active = @ \cup {c}]
            /\ ops' = IF ops[c].status = "requested" THEN Settle(c, "running") ELSE ops
        BY <1>5, <2>2, <3>3 DEF Begin
      <4>2. Moves(h, c, "running")
        BY <4>1, Moving
      <4> QED
        BY <1>1, <2>1, <3>1, <3>3, <4>1, <4>2 DEF Beginning, KeepsRun, Accepts
    <3> QED
      BY <3>2, <3>3
  <2> QED
    BY <1>1, <1>2, <2>1, <2>2
<1>6. CASE Perform(h, c)
  <2>1. exec' = [exec EXCEPT ![h].pc[c] = "performed"] /\ exec[h].pc[c] = "running"
    BY <1>6 DEF Perform, InStage
  <2>2. Moves(h, c, "performed")
    BY <2>1, Moving
  <2> QED
    BY <1>1, <1>6, <2>1, <2>2 DEF Perform, Performing, KeepsRun
<1>7. CASE Succeed(h, c)
  BY <1>1, <1>7, Committed DEF Succeed
<1>8. CASE Reject(h, c)
  BY <1>1, <1>8, Committed DEF Reject
<1>9. CASE Defect(h, c)
  <2>1. CASE c \in Never
    BY <1>1, <1>9, <2>1, Committed DEF Defect
  <2>2. CASE c \notin Never
    <3>1. exec' = [exec EXCEPT ![h].pc[c] = "failed"] /\ UNCHANGED <<run, ops, effects>>
      BY <1>9, <2>2 DEF Defect
    <3> QED
      BY <1>1, <3>1, Moving DEF Quiet, KeepsRun
  <2> QED
    BY <2>1, <2>2
<1> QED
  BY <1>3, <1>4, <1>5, <1>6, <1>7, <1>8, <1>9

LEMMA RunInvOfCalls ==
    ASSUME OpsTypeOK, RunInv, NEW h \in Hosts, CallStep(h)
    PROVE  RunInv'
<1> PICK c \in Call : \/ Quiet(h, c) \/ Recording(h, c) \/ Beginning(h, c)
                      \/ Performing(h, c) \/ Committing(h, c)
  BY CallSteps
<1>1. exec[h].phase = "batch" /\ KeepsRun
  BY CallSteps
<1>2. \A k \in Hosts : exec'[k].phase = exec[k].phase
  BY DEF Quiet, Recording, Beginning, Performing, Committing, Moves
<1>3. \A d \in Call : \A status : /\ d # c => Settle(c, status)[d] = ops[d]
                              /\ Settle(c, status)[c].status = status
  BY DEF OpsTypeOK, Settle, Operation
<1>4. CASE Committing(h, c)
  <2> PICK status \in {"succeeded", "failed", "unknown"} :
          /\ ops' = Settle(c, status)
          /\ run'.status = IF status = "unknown" THEN "needs-resolution" ELSE run.status
    BY <1>4 DEF Committing
  <2>1. Fenced(h) /\ ops[c].status # "unknown"
    BY <1>4 DEF Committing, CompletedStatuses
  <2>2. HasUnknown => HasUnknown'
    BY <1>3, <2>1 DEF HasUnknown
  <2>3. status = "unknown" => HasUnknown'
    BY <1>3 DEF HasUnknown
  <2>4. ~HasEnded /\ run.status # "waiting"
    BY <1>1, <2>1, OperationsAssumption DEF RunInv, Fenced
  <2> QED
    BY <1>1, <1>2, <1>3, <2>1, <2>2, <2>3, <2>4 DEF RunInv, HasEnded, Ended, Fenced, KeepsRun
<1>5. CASE ~Committing(h, c)
  <2>1. run'.status = run.status
    BY <1>5 DEF Quiet, Recording, Beginning, Performing
  <2>2. \A d \in Call : \/ ops'[d] = ops[d]
                        \/ /\ ops[d].status \in {"absent", "requested"}
                           /\ ops'[d].status \in {"requested", "running"}
    BY <1>3, <1>5 DEF Quiet, Recording, Beginning, Performing
  <2>3. HasUnknown => HasUnknown'
    BY <2>2 DEF HasUnknown
  <2> QED
    BY <1>1, <1>2, <2>1, <2>2, <2>3, RunInvKept DEF KeepsRun
<1> QED
  BY <1>4, <1>5

LEMMA RunInvOfHosts ==
    ASSUME OpsTypeOK, RunInv, NEW h \in Hosts, HostStep(h) \/ HostFault(h)
    PROVE  RunInv'
<1>0. /\ h # NoHost /\ exec \in [Hosts -> Execution]
      /\ \A phase \in Phases : phase \in Phases
      /\ {"settling", "completing", "failing", "suspending", "leaving"} \subseteq Phases
  BY OperationsAssumption DEF OpsTypeOK, Phases
<1>1. CASE Claim(h)
  <2>1. /\ run'.owner = h /\ run'.status \in {"running", "cancelling"}
        /\ run'.cancellationRequested = run.cancellationRequested /\ ops' = ops
    BY <1>1 DEF Claim, OpsTypeOK, StoredRun
  <2> QED
    BY <2>1 DEF RunInv, HasEnded, Ended
<1>2. ASSUME NEW S \in SUBSET Call, Fenced(h), exec[h].phase # "leaving",
             ops' = Expired(S), run' = [run EXCEPT !.status = StatusAfterExpiry(S)],
             \A k \in Hosts \ {h} : exec'[k] = exec[k]
      PROVE  RunInv'
  <2>1. ~HasEnded /\ run.status # "waiting"
    BY <1>0, <1>2 DEF RunInv, Fenced
  <2>2. /\ HasUnknown => HasUnknown'
        /\ run'.status = run.status \/ (run'.status = "needs-resolution" /\ HasUnknown')
        /\ run'.owner = run.owner /\ run'.cancellationRequested = run.cancellationRequested
        /\ \A c \in Call : ops'[c].status \in {"cancelling", "cancelled"}
                                => ops[c].status \in {"cancelling", "cancelled"}
    BY <1>2, OnlyUnknownIsAdded
  <2> QED
    BY <2>1, <2>2 DEF RunInv, HasEnded, Ended
<1>3. CASE Load(h)
  <2>1. CASE Fenced(h)
    <3>1. \A k \in Hosts \ {h} : exec'[k] = exec[k]
      BY <1>0, <1>3, <2>1 DEF Load
    <3>2. ops' = Expired(Call) /\ run' = [run EXCEPT !.status = StatusAfterExpiry(Call)]
      BY <1>3, <2>1 DEF Load
    <3> QED
      BY <1>2, <1>3, <2>1, <3>1, <3>2 DEF Load
  <2>2. CASE ~Fenced(h)
    BY <1>0, <1>3, <2>2, Exits, RunInvKept DEF Load, HasUnknown
  <2> QED
    BY <2>1, <2>2
<1>4. CASE Release(h)
  <2>1. /\ run'.owner = IF Fenced(h) THEN NoHost ELSE run.owner
        /\ run'.status = run.status /\ run'.cancellationRequested = run.cancellationRequested
        /\ ops' = ops /\ \A k \in Hosts \ {h} : exec'[k] = exec[k]
    BY <1>0, <1>4 DEF Release, OpsTypeOK, StoredRun
  <2> QED
    BY <1>0, <2>1, RunInvKept DEF Fenced, HasUnknown
<1>5. CASE CallStep(h)
  BY <1>5, RunInvOfCalls
<1>6. CASE StageEnd(h)
  <2>1. /\ exec[h].phase = "batch" /\ ops' = ops
        /\ run'.status = run.status /\ run'.owner = run.owner
        /\ run'.cancellationRequested = run.cancellationRequested
    BY <1>6 DEF StageEnd, OpsTypeOK, StoredRun
  <2>2. \A k \in Hosts \ {h} : exec'[k] = exec[k]
    <3>1. CASE Leave(h) \/ \E phase \in Phases : exec' = To(h, phase)
      BY <3>1, <1>0, Exits
    <3>2. CASE ~(Leave(h) \/ \E phase \in Phases : exec' = To(h, phase))
      BY <1>0, <1>6, <3>2 DEF StageEnd
    <3> QED
      BY <3>1, <3>2
  <2> QED
    BY <2>1, <2>2, RunInvKept DEF HasUnknown
<1>7. CASE Suspend(h)
  <2>1. /\ ops' = ops /\ exec'[h].phase = "leaving" /\ \A k \in Hosts \ {h} : exec'[k] = exec[k]
    BY <1>0, <1>7, Exits DEF Suspend
  <2>2. \/ run' = run
        \/ /\ run'.status = "waiting" /\ run'.owner = NoHost
           /\ run'.cancellationRequested = run.cancellationRequested
    BY <1>7 DEF Suspend, OpsTypeOK, StoredRun
  <2> QED
    BY <2>1, <2>2 DEF RunInv, HasEnded, Ended, Fenced, HasUnknown
<1>8. ASSUME NEW status \in {"succeeded", "failed"}, Leave(h), ops' = ops,
             run' = IF Fenced(h) /\ ~HasEnded THEN Finished(status) ELSE run
      PROVE  RunInv'
  <2>1. exec'[h].phase = "leaving" /\ \A k \in Hosts \ {h} : exec'[k] = exec[k]
    BY <1>0, <1>8, Exits
  <2>2. \/ run' = run
        \/ /\ Fenced(h) /\ run'.status \in Ended /\ run'.owner = run.owner
           /\ run'.cancellationRequested = run.cancellationRequested
        \/ /\ run'.status = run.status /\ run'.owner = NoHost
           /\ run'.cancellationRequested = run.cancellationRequested
    BY <1>8 DEF Finished, OpsTypeOK, StoredRun, Ended
  <2> QED
    BY <1>8, <2>1, <2>2 DEF RunInv, HasEnded, Ended, Fenced, HasUnknown
<1>9. CASE Complete(h)
  BY <1>8, <1>9 DEF Complete
<1>10. CASE SettleActive(h)
  <2>1. exec[h].active \in SUBSET Call /\ exec[h].phase = "settling"
    BY <1>10 DEF SettleActive, OpsTypeOK, Execution
  <2>2. CASE exec[h].active # {} /\ ~Fenced(h)
    <3>1. Leave(h) /\ UNCHANGED <<run, ops>>
      BY <1>10, <2>2 DEF SettleActive
    <3> QED
      BY <1>0, <3>1, Exits, RunInvKept DEF HasUnknown
  <2>3. CASE ~(exec[h].active # {} /\ ~Fenced(h))
    <3>1. /\ ops' = Expired(exec[h].active)
          /\ run' = [run EXCEPT !.status = StatusAfterExpiry(exec[h].active)]
          /\ \A k \in Hosts \ {h} : exec'[k] = exec[k]
      BY <1>0, <1>10, <2>3 DEF SettleActive
    <3>2. CASE Fenced(h)
      BY <1>2, <2>1, <3>1, <3>2
    <3>3. CASE ~Fenced(h)
      <4>1. \A c \in Call : ops'[c] = ops[c]
        BY <2>3, <3>1, <3>3 DEF Expired, OpsTypeOK
      <4>2. run'.status = run.status /\ run'.owner = run.owner
            /\ run'.cancellationRequested = run.cancellationRequested
        BY <2>3, <3>1, <3>3 DEF StatusAfterExpiry, OpsTypeOK, StoredRun
      <4> QED
        BY <3>1, <3>3, <4>1, <4>2, RunInvKept DEF HasUnknown, Fenced
    <3> QED
      BY <3>2, <3>3
  <2> QED
    BY <2>2, <2>3
<1>11. CASE Fail(h)
  BY <1>8, <1>11 DEF Fail
<1>12. CASE Interrupt(h) \/ Reconciled(h) \/ CancelFails(h)
  <2>1. /\ run' = run /\ ops' = ops /\ exec[h].phase # "leaving"
        /\ Leave(h) \/ \E phase \in Phases : exec' = To(h, phase)
    BY <1>0, <1>12 DEF Interrupt, Reconciled, CancelFails
  <2> QED
    BY <1>0, <2>1, Exits, RunInvKept DEF HasUnknown
<1>13. ASSUME NEW c \in Call, Acknowledge(h, c) PROVE RunInv'
  <2>1. run' = run /\ exec[h].phase = "reconciling"
    BY <1>13 DEF Acknowledge
  <2>2. \A k \in Hosts \ {h} : exec'[k] = exec[k]
    BY <1>0, <1>13, Exits DEF Acknowledge
  <2>3. \A d \in Call : \/ ops'[d] = ops[d]
                        \/ /\ ops[d].status = "cancelling"
                           /\ ops'[d].status \in {"cancelled", "succeeded"}
    BY <1>13 DEF Acknowledge, Settle, OpsTypeOK, Operation
  <2>4. HasUnknown => HasUnknown'
    BY <2>3 DEF HasUnknown
  <2> QED
    BY <2>1, <2>2, <2>3, <2>4, RunInvKept
<1>14. CASE Abandon(h)
  <2>1. exec[h].active \in SUBSET Call /\ exec[h].phase # "leaving" /\ Leave(h)
    BY <1>14 DEF Abandon, OpsTypeOK, Execution
  <2>2. \A k \in Hosts \ {h} : exec'[k] = exec[k]
    BY <1>0, <2>1, Exits
  <2>3. CASE Fenced(h)
    BY <1>2, <1>14, <2>1, <2>2, <2>3 DEF Abandon
  <2>4. CASE ~Fenced(h)
    BY <1>14, <2>2, <2>4, RunInvKept DEF Abandon, HasUnknown, Fenced
  <2> QED
    BY <2>3, <2>4
<1>15. CASE Crash(h) \/ LeaseLapses(h)
  <2>1. /\ run'.owner = IF Fenced(h) THEN NoHost ELSE run.owner
        /\ run'.status = run.status /\ run'.cancellationRequested = run.cancellationRequested
        /\ ops' = ops /\ \A k \in Hosts \ {h} : exec'[k] = exec[k]
    BY <1>0, <1>15 DEF Crash, LeaseLapses, OpsTypeOK, StoredRun
  <2> QED
    BY <1>0, <2>1, RunInvKept DEF Fenced, HasUnknown
<1> QED
  BY <1>1, <1>3, <1>4, <1>5, <1>6, <1>7, <1>9, <1>10, <1>11, <1>12, <1>13, <1>14, <1>15
     DEF HostStep, HostFault

\* What a cancellation leaves of a Run r with the operations o.
LEMMA Cancelling ==
    ASSUME NEW r \in StoredRun, NEW o \in [Call -> Operation]
    PROVE  /\ \A c \in Call :
                \/ Marked(o)[c] = o[c]
                \/ /\ o[c].status \in {"requested", "running", "unknown"}
                   /\ Marked(o)[c].status = "cancelling"
                   /\ Marked(o)[c].resolution = o[c].resolution
           /\ AfterCancel(r, o).owner = r.owner /\ AfterCancel(r, o).cancellationRequested
           /\ AfterCancel(r, o).status \in {r.status, "needs-resolution", "cancelling", "cancelled"}
           /\ AfterCancel(r, o).status = "needs-resolution"
                => r.status = "needs-resolution" /\ \A c \in Call : Marked(o)[c] = o[c]
           /\ AfterCancel(r, o).status = "cancelled" /\ r.status # "cancelled"
                => /\ ~(r.owner # NoHost /\ r.status \in {"running", "cancelling"})
                   /\ \A c \in Call : Marked(o)[c].status \notin {"cancelling", "unknown"}
<1>1. \A c \in Call : Marked(o)[c] = IF c \in Markable(o) THEN [o[c] EXCEPT !.status = "cancelling"] ELSE o[c]
  BY DEF Marked
<1>2. \A c \in Markable(o) : o[c].status \in {"requested", "running", "unknown"}
  BY DEF Markable
<1>3. \A c \in Call :
        \/ Marked(o)[c] = o[c]
        \/ /\ o[c].status \in {"requested", "running", "unknown"}
           /\ Marked(o)[c].status = "cancelling"
           /\ Marked(o)[c].resolution = o[c].resolution
  BY <1>1, <1>2 DEF Operation
<1> DEFINE status == IF r.status = "needs-resolution" /\ Markable(o) = {} THEN "needs-resolution"
                     ELSE IF r.cancellationRequested /\ r.status # "needs-resolution"
                     THEN r.status ELSE "cancelling"
           owned == r.owner # NoHost /\ r.status \in {"running", "cancelling"}
           pending == \E c \in Call : Marked(o)[c].status \in {"cancelling", "unknown"}
<1>4. /\ AfterCancel(r, o).owner = r.owner /\ AfterCancel(r, o).cancellationRequested
      /\ AfterCancel(r, o).status = IF owned \/ pending THEN status ELSE "cancelled"
  BY DEF AfterCancel, StoredRun
<1>5. /\ status \in {r.status, "needs-resolution", "cancelling"}
      /\ status = "needs-resolution" => r.status = "needs-resolution" /\ Markable(o) = {}
  OBVIOUS
<1>6. status = "cancelled" => r.status = "cancelled"
  OBVIOUS
<1> HIDE DEF status, owned, pending
<1>7. Markable(o) = {} => \A c \in Call : Marked(o)[c] = o[c]
  BY <1>1
<1>8. AfterCancel(r, o).status = "cancelled" /\ r.status # "cancelled" => ~owned /\ ~pending
  BY <1>4, <1>6
<1> USE DEF owned, pending
<1> QED
  BY <1>3, <1>4, <1>5, <1>7, <1>8

LEMMA RunInvOfCallers ==
    ASSUME OpsTypeOK, RunInv, OutsideStep
    PROVE  RunInv'
<1>1. CASE Cancel
  <2>1. /\ run \in StoredRun /\ ops \in [Call -> Operation]
        /\ ops' = Marked(ops) /\ run' = AfterCancel(run, ops) /\ exec' = exec /\ ~HasEnded
    BY <1>1 DEF Cancel, OpsTypeOK
  <2>2. run'.status = "needs-resolution" => HasUnknown'
    BY <2>1, Cancelling DEF RunInv, HasUnknown
  <2>3. HasUnknown => \E c \in Call : ops'[c].status \in {"cancelling", "unknown"}
    BY <2>1, Cancelling DEF HasUnknown
  <2>4. run'.status \in Ended => run.owner = NoHost
    BY <2>1, <2>3, Cancelling DEF RunInv, StoredRun, Statuses, HasEnded, Ended
  <2>5. run'.status = "waiting" => run.status = "waiting"
    BY <2>1, Cancelling
  <2> QED
    BY <2>1, <2>2, <2>4, <2>5, Cancelling, OperationsAssumption DEF RunInv, HasEnded, Fenced
<1>2. ASSUME NEW c \in Call, Respond(c) PROVE RunInv'
  <2>1. /\ run'.status = "running" /\ run'.owner = run.owner /\ ops' = ops /\ exec' = exec
        /\ run'.cancellationRequested = run.cancellationRequested
    BY <1>2 DEF Respond, OpsTypeOK, StoredRun
  <2> QED
    BY <2>1 DEF RunInv, HasEnded, Ended
<1>3. ASSUME NEW c \in Call, Resolve(c) PROVE RunInv'
  <2> PICK o \in [Call -> Operation], r \in StoredRun :
          /\ Resolved(c, o, r)
          /\ \/ run.cancellationRequested /\ ops' = Marked(o) /\ run' = AfterCancel(r, o)
             \/ ops' = o /\ run' = r
    BY <1>3, ResolutionTyped
  <2>1. run'.owner = NoHost /\ run'.status # "waiting"
    BY Cancelling DEF Resolved
  <2>2. run'.status = "needs-resolution" => HasUnknown'
    BY Cancelling DEF Resolved, HasUnknown
  <2>3. \A d \in Call : ops'[d].status \in {"cancelling", "cancelled"} => run'.cancellationRequested
    <3>1. CASE ops' = o /\ run' = r
      BY <3>1 DEF RunInv, Resolved
    <3>2. CASE ops' = Marked(o) /\ run' = AfterCancel(r, o)
      BY <3>2, Cancelling
    <3> QED
      BY <3>1, <3>2
  <2> QED
    BY <2>1, <2>2, <2>3, OperationsAssumption DEF RunInv, Fenced
<1>4. ASSUME NEW c \in Call, OperatorRetry(c) PROVE RunInv'
  <2>1. /\ run'.owner = NoHost /\ run'.status = "running"
        /\ run'.cancellationRequested = run.cancellationRequested
    BY <1>4 DEF OperatorRetry, OpsTypeOK, StoredRun
  <2>2. \A d \in Call : ops'[d].status \in {"cancelling", "cancelled"} => ops'[d] = ops[d]
    BY <1>4 DEF OperatorRetry, Settle, OpsTypeOK, Operation
  <2> QED
    BY <2>1, <2>2 DEF RunInv, HasEnded, Ended
<1> QED
  BY <1>1, <1>2, <1>3, <1>4 DEF OutsideStep

-----------------------------------------------------------------------------
(* Counting effects.                                                       *)

LEMMA StartingIsFinite ==
    ASSUME NEW c \in Call
    PROVE  IsFiniteSet(Starting(c)) /\ Cardinality(Starting(c)) \in Nat
<1>1. Starting(c) \in SUBSET Hosts
  BY DEF Starting
<1> QED
  BY <1>1, OperationsAssumption, FS_Subset, FS_CardinalityType

\* No host starts a call, and the record of the call accounts for as much.
LEMMA CoveredWhenQuiet ==
    ASSUME OpsTypeOK, EffectsCovered, NEW c \in Never,
           effects'[c] = effects[c], Starting(c)' \subseteq Starting(c),
           \/ ops'[c] = ops[c]
           \/ ops[c].status = "absent" /\ ops'[c].resolution = ops[c].resolution
           \/ /\ ops'[c].status \notin {"absent", "requested"}
              /\ ops[c].resolution = "Retry" => ops'[c].resolution = "Retry"
           \/ ops'[c].resolution = "Retry" /\ ops[c].resolution # "Retry"
    PROVE  effects'[c] + Cardinality(Starting(c)') <= Allowed(c)'
<1>1. /\ c \in Call /\ effects[c] \in Nat
      /\ effects[c] + Cardinality(Starting(c)) <= Allowed(c)
  BY OperationsAssumption DEF OpsTypeOK, EffectsCovered
<1>2. Allowed(c)' \in Nat /\ Allowed(c) \in Nat /\ Allowed(c) <= Allowed(c)'
  BY DEF Allowed
<1>3. /\ IsFiniteSet(Starting(c)) /\ Cardinality(Starting(c)) \in Nat
  BY <1>1, StartingIsFinite
<1>4. /\ IsFiniteSet(Starting(c)') /\ Cardinality(Starting(c)') \in Nat
      /\ Cardinality(Starting(c)') <= Cardinality(Starting(c))
  BY <1>3, FS_Subset, FS_CardinalityType
<1> QED
  BY <1>1, <1>2, <1>3, <1>4

\* What the steps between and after batches, and those from outside, do to them.
LEMMA SafeOutsideBatches ==
    ASSUME OpsTypeOK, CallInv, EffectsCovered, effects' = effects,
           \A k \in Hosts : exec'[k].phase = "batch" =>
                /\ exec[k].phase = "batch" /\ exec'[k].pc = exec[k].pc
                /\ run'.owner = k => run.owner = k,
           \A c \in Call : \/ ops'[c] = ops[c]
                           \/ /\ ops'[c].status \notin {"absent", "running"}
                              /\ \/ c \notin Never
                                 \/ /\ ops'[c].status # "requested"
                                    /\ ops[c].resolution = "Retry" => ops'[c].resolution = "Retry"
                                 \/ ops'[c].resolution = "Retry" /\ ops[c].resolution # "Retry"
    PROVE  CallInv' /\ EffectsCovered'
<1>1. CallInv'
  BY DEF CallInv, Fenced
<1>2. ASSUME NEW c \in Never PROVE effects'[c] + Cardinality(Starting(c)') <= Allowed(c)'
  <2>1. c \in Call
    BY OperationsAssumption
  <2>2. Starting(c)' \subseteq Starting(c)
    BY DEF Starting
  <2> QED
    BY <2>1, <2>2, CoveredWhenQuiet
<1> QED
  BY <1>1, <1>2 DEF EffectsCovered

LEMMA SafeCalls ==
    ASSUME OpsInv, NEW h \in Hosts, CallStep(h)
    PROVE  CallInv' /\ EffectsCovered'
<1> PICK c \in Call : \/ Quiet(h, c) \/ Recording(h, c) \/ Beginning(h, c)
                      \/ Performing(h, c) \/ Committing(h, c)
  BY CallSteps DEF OpsInv
<1>1. exec[h].phase = "batch" /\ run'.owner = run.owner
  BY CallSteps DEF OpsInv, KeepsRun
<1>2. \A d \in Call : \A status : /\ d # c => Settle(c, status)[d] = ops[d]
                              /\ Settle(c, status)[c].status = status
                              /\ Settle(c, status)[c].resolution = ops[c].resolution
  BY DEF OpsInv, OpsTypeOK, Settle, Operation
<1>3. exec[h].pc \in [Call -> Progress] /\ effects \in [Call -> Nat]
  BY DEF OpsInv, OpsTypeOK, Execution
<1>4. \A k \in Hosts : exec'[k].phase = "batch" =>
            /\ exec[k].phase = "batch"
            /\ \A d \in Call : exec'[k].pc[d] = exec[k].pc[d] \/ (k = h /\ d = c)
  BY <1>3 DEF Quiet, Recording, Beginning, Performing, Committing, Moves
<1>5. ASSUME NEW d \in Never, d # c PROVE effects'[d] + Cardinality(Starting(d)') <= Allowed(d)'
  <2>1. d \in Call
    BY OperationsAssumption
  <2>2. ops'[d] = ops[d] /\ effects'[d] = effects[d]
    BY <1>2, <1>3, <1>5, <2>1 DEF Quiet, Recording, Beginning, Performing, Committing
  <2>3. Starting(d)' \subseteq Starting(d)
    BY <1>4, <1>5, <2>1 DEF Starting
  <2> QED
    BY <2>2, <2>3, CoveredWhenQuiet DEF OpsInv
<1>6. CASE Quiet(h, c) \/ Recording(h, c) \/ Committing(h, c)
  <2>1. /\ effects' = effects /\ exec'[h].pc[c] # "running"
        /\ \/ ops'[c] = ops[c]
           \/ ops[c].status = "absent" /\ ops'[c].status = "requested"
              /\ ops'[c].resolution = ops[c].resolution
           \/ ops'[c].status \in {"succeeded", "failed", "unknown"}
              /\ ops'[c].resolution = ops[c].resolution
        /\ \A d \in Call \ {c} : ops'[d] = ops[d]
    BY <1>2, <1>3, <1>6 DEF Quiet, Recording, Committing, Moves
  <2>2. exec'[h].pc[c] = "recorded" => ops'[c].status # "absent" /\ Recording(h, c)
    BY <1>2, <1>3, <1>6 DEF Quiet, Recording, Committing, Moves
  <2>3. exec'[h].pc[c] \in {"authorize", "execute", "recorded"} =>
            exec[h].pc[c] \in {"authorize", "execute", "recorded"}
    BY <1>3, <1>6 DEF Quiet, Recording, Committing, Moves
  <2>4. CallInv'
    BY <1>1, <1>4, <2>1, <2>2, <2>3 DEF OpsInv, CallInv, Fenced
  <2>5. ASSUME c \in Never PROVE effects'[c] + Cardinality(Starting(c)') <= Allowed(c)'
    <3>1. Starting(c)' \subseteq Starting(c)
      BY <1>4, <2>1 DEF Starting
    <3> QED
      BY <2>1, <2>5, <3>1, CoveredWhenQuiet DEF OpsInv
  <2> QED
    BY <1>5, <2>4, <2>5 DEF EffectsCovered
<1>7. CASE Beginning(h, c)
  <2>1. /\ effects' = effects /\ exec'[h].pc[c] = "running" /\ exec[h].pc[c] = "recorded"
        /\ Fenced(h)
    BY <1>3, <1>7 DEF Beginning, Moves
  <2>2. ops[c].status = "requested"
    BY <1>1, <1>7, <2>1 DEF Beginning, OpsInv, RunInv, CallInv, OpsTypeOK, Operation, OperationStatuses
  <2>3. /\ ops'[c].status = "running" /\ ops'[c].resolution = ops[c].resolution
        /\ \A d \in Call \ {c} : ops'[d] = ops[d]
    BY <1>2, <1>7, <2>2 DEF Beginning
  <2>4. CallInv'
    BY <1>1, <1>4, <2>1, <2>3, OperationsAssumption DEF OpsInv, CallInv, Fenced
  <2>5. ASSUME c \in Never PROVE effects'[c] + Cardinality(Starting(c)') <= Allowed(c)'
    <3>1. Starting(c)' = Starting(c) \cup {h} /\ h \notin Starting(c)
      BY <1>1, <1>3, <1>7, <2>1 DEF Starting, Beginning, Moves
    <3>2. /\ IsFiniteSet(Starting(c)) /\ Cardinality(Starting(c)) \in Nat
      BY StartingIsFinite
    <3>3. Cardinality(Starting(c)') = Cardinality(Starting(c)) + 1
      BY <3>1, <3>2, FS_AddElement
    <3>4. Allowed(c)' = Allowed(c) + 1 /\ Allowed(c) \in Nat
      BY <2>2, <2>3 DEF Allowed
    <3>5. effects[c] + Cardinality(Starting(c)) <= Allowed(c) /\ effects[c] \in Nat
      BY <2>5, <1>3 DEF OpsInv, EffectsCovered
    <3> QED
      BY <2>1, <3>2, <3>3, <3>4, <3>5
  <2> QED
    BY <1>5, <2>4, <2>5 DEF EffectsCovered
<1>8. CASE Performing(h, c)
  <2>1. /\ effects'[c] = effects[c] + 1 /\ exec'[h].pc[c] = "performed" /\ exec[h].pc[c] = "running"
        /\ ops' = ops
    BY <1>3, <1>8 DEF Performing, Moves
  <2>2. CallInv'
    BY <1>1, <1>4, <2>1 DEF OpsInv, CallInv, Fenced
  <2>3. ASSUME c \in Never PROVE effects'[c] + Cardinality(Starting(c)') <= Allowed(c)'
    <3>1. Starting(c)' = Starting(c) \ {h} /\ h \in Starting(c)
      BY <1>1, <1>3, <1>8, <2>1 DEF Starting, Performing, Moves
    <3>2. /\ IsFiniteSet(Starting(c)) /\ Cardinality(Starting(c)) \in Nat
      BY StartingIsFinite
    <3>3. Cardinality(Starting(c)') = Cardinality(Starting(c)) - 1
      BY <3>1, <3>2, FS_RemoveElement
    <3>4. Allowed(c)' = Allowed(c) /\ Allowed(c) \in Nat
      BY <2>1 DEF Allowed
    <3>5. effects[c] + Cardinality(Starting(c)) <= Allowed(c) /\ effects[c] \in Nat
      BY <2>3, <1>3 DEF OpsInv, EffectsCovered
    <3> QED
      BY <2>1, <3>2, <3>3, <3>4, <3>5
  <2> QED
    BY <1>5, <2>2, <2>3 DEF EffectsCovered
<1> QED
  BY <1>6, <1>7, <1>8

\* An execution that leaves its batch, or goes on to the next stage.
LEMMA SafeExits ==
    ASSUME OpsInv, NEW h \in Hosts, effects' = effects,
           \A k \in Hosts \ {h} : exec'[k] = exec[k],
           exec'[h].phase = "batch" => exec[h].phase = "batch" /\ exec'[h].pc = exec[h].pc,
           run'.owner \in {run.owner, NoHost}
               \/ (run'.owner = h /\ exec'[h].phase # "batch"),
           ops' = ops \/ (\E S \in SUBSET Call : ops' = Expired(S))
               \/ (\E c \in Call : /\ ops[c].status = "cancelling"
                                   /\ \E status \in {"cancelled", "succeeded"} : ops' = Settle(c, status))
    PROVE  CallInv' /\ EffectsCovered'
<1>1. \A k \in Hosts : exec'[k].phase = "batch" =>
            /\ exec[k].phase = "batch" /\ exec'[k].pc = exec[k].pc
            /\ run'.owner = k => run.owner = k
  BY OperationsAssumption
<1>2. \A c \in Call : \/ ops'[c] = ops[c]
                      \/ /\ ops'[c].status \notin {"absent", "running"}
                         /\ \/ c \notin Never
                            \/ ops'[c].status # "requested" /\ ops'[c].resolution = ops[c].resolution
  <2>1. ASSUME NEW S \in SUBSET Call, ops' = Expired(S), NEW c \in Call
        PROVE  \/ ops'[c] = ops[c]
               \/ /\ ops'[c].resolution = ops[c].resolution
                  /\ ops'[c].status = IF c \in Never THEN "unknown" ELSE "requested"
    BY <2>1 DEF Expired, OpsInv, OpsTypeOK, Operation
  <2>2. ASSUME NEW d \in Call, NEW status \in {"cancelled", "succeeded"}, ops' = Settle(d, status),
               NEW c \in Call
        PROVE  \/ ops'[c] = ops[c]
               \/ ops'[c].resolution = ops[c].resolution /\ ops'[c].status = status
    BY <2>2 DEF Settle, OpsInv, OpsTypeOK, Operation
  <2> QED
    BY <2>1, <2>2
<1> QED
  BY <1>1, <1>2, SafeOutsideBatches DEF OpsInv

LEMMA SafeHosts ==
    ASSUME OpsInv, NEW h \in Hosts, HostStep(h) \/ HostFault(h)
    PROVE  CallInv' /\ EffectsCovered'
<1>0. /\ h # NoHost /\ exec \in [Hosts -> Execution] /\ exec[h] \in Execution /\ OpsTypeOK
      /\ {"settling", "completing", "failing", "leaving"} \subseteq Phases
      /\ run \in StoredRun
  BY OperationsAssumption DEF OpsInv, OpsTypeOK, Phases
<1>1. ASSUME Leave(h) \/ \E phase \in Phases \ {"batch"} : exec' = To(h, phase)
      PROVE  exec'[h].phase # "batch" /\ \A k \in Hosts \ {h} : exec'[k] = exec[k]
  BY <1>0, <1>1, Exits
<1>2. CASE CallStep(h)
  BY <1>2, SafeCalls
<1>3. CASE Claim(h)
  <2>1. /\ exec'[h].phase = "loading" /\ \A k \in Hosts \ {h} : exec'[k] = exec[k]
        /\ run'.owner = h /\ ops' = ops /\ effects' = effects
    BY <1>0, <1>3 DEF Claim, StoredRun
  <2> QED
    BY <2>1, SafeExits
<1>4. CASE Load(h)
  <2>1. CASE ~Fenced(h)
    BY <1>0, <1>1, <1>4, <2>1, SafeExits DEF Load
  <2>2. CASE Fenced(h)
    <3>1. /\ ops' = Expired(Call) /\ effects' = effects /\ run'.owner = run.owner
          /\ \A k \in Hosts \ {h} : exec'[k] = exec[k]
      BY <1>0, <1>4, <2>2 DEF Load, StoredRun
    <3>2. exec'[h].phase = "batch" =>
              exec'[h].pc = [c \in Call |-> Resumed(run.checkpoint[c], run.waits[c])]
      <4>1. CASE run.cancellationRequested
        BY <1>0, <1>4, <2>2, <4>1 DEF Load, Execution
      <4>2. CASE ~run.cancellationRequested
        <5>1. exec' = [exec EXCEPT ![h] =
                  [@ EXCEPT !.phase = IF run'.status = "needs-resolution" THEN "leaving" ELSE "batch",
                            !.batch = run.checkpoint,
                            !.answers = run.waits,
                            !.pc = [c \in Call |-> Resumed(run.checkpoint[c], run.waits[c])]]]
          BY <1>4, <2>2, <4>2 DEF Load
        <5> QED
          BY <1>0, <5>1 DEF Execution
      <4> QED
        BY <4>1, <4>2
    <3>3. \A c \in Call : Resumed(run.checkpoint[c], run.waits[c])
                              \in {"authorize", "execute", "failed", "done"}
      BY <1>0 DEF Resumed, StoredRun, Batches, BatchStates
    <3>4. \A c \in Call : /\ ops'[c].status # "running" /\ ops'[c].resolution = ops[c].resolution
                          /\ ops'[c] = ops[c] \/ (c \in Never => ops'[c].status = "unknown")
                          /\ ops'[c].status = "absent" => ops[c].status = "absent"
      BY <1>0, <3>1 DEF Expired, OpsTypeOK, Operation
    <3>5. CallInv'
      <4> SUFFICES ASSUME NEW k \in Hosts, NEW c \in Call, exec'[k].phase = "batch"
                   PROVE  exec'[k].pc[c] = "recorded" => ops'[c].status # "absent"
        BY <3>4 DEF CallInv
      <4>1. CASE k = h
        BY <3>2, <3>3, <4>1
      <4>2. CASE k # h
        BY <3>1, <3>4, <4>2 DEF OpsInv, CallInv
      <4> QED
        BY <4>1, <4>2
    <3>6. ASSUME NEW c \in Never PROVE effects'[c] + Cardinality(Starting(c)') <= Allowed(c)'
      <4>1. c \in Call
        BY OperationsAssumption
      <4>2. Starting(c)' \subseteq Starting(c)
        <5>1. h \notin Starting(c)'
          BY <3>2, <3>3, <4>1 DEF Starting
        <5> QED
          BY <3>1, <5>1 DEF Starting
      <4> QED
        BY <3>1, <3>4, <4>1, <4>2, CoveredWhenQuiet DEF OpsInv
    <3> QED
      BY <3>5, <3>6 DEF EffectsCovered
  <2> QED
    BY <2>1, <2>2
<1>5. CASE Release(h) \/ Crash(h)
  <2>1. /\ exec'[h].phase = "idle" /\ \A k \in Hosts \ {h} : exec'[k] = exec[k]
        /\ run'.owner \in {run.owner, NoHost} /\ ops' = ops /\ effects' = effects
    BY <1>0, <1>5 DEF Release, Crash, Idle, StoredRun
  <2> QED
    BY <2>1, SafeExits
<1>6. CASE StageEnd(h)
  <2>1. run'.owner = run.owner /\ ops' = ops /\ effects' = effects
    BY <1>0, <1>6 DEF StageEnd, StoredRun
  <2>2. CASE Leave(h) \/ \E phase \in Phases : exec' = To(h, phase) /\ phase # "batch"
    BY <1>1, <2>1, <2>2, SafeExits
  <2>3. CASE ~(Leave(h) \/ \E phase \in Phases : exec' = To(h, phase) /\ phase # "batch")
    <3>1. \/ exec' = [exec EXCEPT ![h].phase = "suspending"]
          \/ \E next \in Call : exec' = [exec EXCEPT ![h].at = next]
      BY <1>0, <1>6, <2>3 DEF StageEnd
    <3>2. /\ \A k \in Hosts \ {h} : exec'[k] = exec[k]
          /\ exec'[h].phase = "batch" => exec[h].phase = "batch" /\ exec'[h].pc = exec[h].pc
      BY <1>0, <3>1 DEF Execution
    <3> QED
      BY <2>1, <3>2, SafeExits
  <2> QED
    BY <2>2, <2>3
<1>7. CASE Suspend(h) \/ Complete(h) \/ Fail(h)
  <2>1. /\ Leave(h) /\ ops' = ops /\ effects' = effects
        /\ run'.owner \in {run.owner, NoHost}
    BY <1>0, <1>7 DEF Suspend, Complete, Fail, Finished, StoredRun
  <2> QED
    BY <1>1, <2>1, SafeExits
<1>8. CASE SettleActive(h)
  <2>1. exec[h].active \in SUBSET Call
    BY <1>0 DEF Execution
  <2>2. CASE exec[h].active # {} /\ ~Fenced(h)
    BY <1>1, <1>8, <2>2, SafeExits DEF SettleActive
  <2>3. CASE ~(exec[h].active # {} /\ ~Fenced(h))
    <3>1. /\ ops' = Expired(exec[h].active) /\ effects' = effects /\ run'.owner = run.owner
          /\ \A k \in Hosts \ {h} : exec'[k] = exec[k]
          /\ exec'[h].phase \in {"leaving", "failing"}
      BY <1>0, <1>8, <2>3 DEF SettleActive, StoredRun, Execution
    <3> QED
      BY <2>1, <3>1, SafeExits
  <2> QED
    BY <2>2, <2>3
<1>9. CASE Interrupt(h) \/ Reconciled(h) \/ CancelFails(h)
  <2>1. /\ run' = run /\ ops' = ops /\ effects' = effects
        /\ Leave(h) \/ \E phase \in Phases \ {"batch"} : exec' = To(h, phase)
    BY <1>0, <1>9 DEF Interrupt, Reconciled, CancelFails
  <2> QED
    BY <1>1, <2>1, SafeExits
<1>10. ASSUME NEW c \in Call, Acknowledge(h, c) PROVE CallInv' /\ EffectsCovered'
  <2>1. run' = run /\ effects' = effects /\ exec[h].phase = "reconciling"
    BY <1>10 DEF Acknowledge
  <2>2. /\ \A k \in Hosts \ {h} : exec'[k] = exec[k]
        /\ exec'[h].phase # "batch"
    BY <1>0, <1>1, <1>10, <2>1 DEF Acknowledge, Execution
  <2>3. \/ ops' = ops
        \/ /\ ops[c].status = "cancelling"
           /\ \E status \in {"cancelled", "succeeded"} : ops' = Settle(c, status)
    BY <1>10 DEF Acknowledge
  <2> QED
    BY <2>1, <2>2, <2>3, SafeExits
<1>11. CASE Abandon(h)
  <2>1. /\ exec[h].active \in SUBSET Call /\ Leave(h) /\ effects' = effects
        /\ ops' = ops \/ ops' = Expired(exec[h].active)
        /\ run'.owner = run.owner
    BY <1>0, <1>11 DEF Abandon, Execution, StoredRun
  <2> QED
    BY <1>1, <2>1, SafeExits
<1>12. CASE LeaseLapses(h)
  BY <1>0, <1>12, SafeExits DEF LeaseLapses, StoredRun
<1> QED
  BY <1>2, <1>3, <1>4, <1>5, <1>6, <1>7, <1>8, <1>9, <1>10, <1>11, <1>12
     DEF HostStep, HostFault

LEMMA SafeCallers ==
    ASSUME OpsInv, OutsideStep
    PROVE  CallInv' /\ EffectsCovered'
<1>0. ops \in [Call -> Operation] /\ run \in StoredRun
  BY DEF OpsInv, OpsTypeOK
<1>1. CASE Cancel
  <2>1. exec' = exec /\ effects' = effects /\ run'.owner = run.owner
    BY <1>0, <1>1, Cancelling DEF Cancel
  <2>2. \A c \in Call : \/ ops'[c] = ops[c]
                        \/ /\ ops'[c].status = "cancelling"
                           /\ ops'[c].resolution = ops[c].resolution
    BY <1>0, <1>1, Cancelling DEF Cancel
  <2> QED
    BY <2>1, <2>2, SafeOutsideBatches DEF OpsInv
<1>2. ASSUME NEW c \in Call, Respond(c) PROVE CallInv' /\ EffectsCovered'
  <2>1. exec' = exec /\ effects' = effects /\ run'.owner = run.owner /\ ops' = ops
    BY <1>0, <1>2 DEF Respond, StoredRun
  <2> QED
    BY <2>1, SafeOutsideBatches DEF OpsInv
<1>3. ASSUME NEW c \in Call, Resolve(c) PROVE CallInv' /\ EffectsCovered'
  <2> PICK o \in [Call -> Operation], r \in StoredRun :
          /\ Resolved(c, o, r)
          /\ \/ run.cancellationRequested /\ ops' = Marked(o) /\ run' = AfterCancel(r, o)
             \/ ops' = o /\ run' = r
    BY <1>3, ResolutionTyped DEF OpsInv
  <2>1. exec' = exec /\ effects' = effects /\ run'.owner = NoHost /\ ops[c].resolution = "none"
    BY <1>3, Cancelling DEF Resolve, Resolved
  <2>2. /\ \A d \in Call \ {c} :
                \/ ops'[d] = ops[d]
                \/ ops'[d].status = "cancelling" /\ ops'[d].resolution = ops[d].resolution
        /\ ops'[c].status \in {"succeeded", "failed", "requested", "cancelling"}
        /\ ops'[c].status = "requested" => ops'[c].resolution = "Retry"
    BY Cancelling DEF Resolved
  <2>3. \A k \in Hosts : exec'[k].phase = "batch" =>
            /\ exec[k].phase = "batch" /\ exec'[k].pc = exec[k].pc
            /\ run'.owner = k => run.owner = k
    BY <2>1, OperationsAssumption
  <2> QED
    BY <2>1, <2>2, <2>3, SafeOutsideBatches DEF OpsInv
<1>4. ASSUME NEW c \in Call, OperatorRetry(c) PROVE CallInv' /\ EffectsCovered'
  <2>1. exec' = exec /\ effects' = effects /\ run'.owner = NoHost /\ c \notin Never
    BY <1>0, <1>4 DEF OperatorRetry, StoredRun
  <2>2. /\ \A d \in Call \ {c} : ops'[d] = ops[d]
        /\ ops'[c].status = "requested"
    BY <1>0, <1>4 DEF OperatorRetry, Settle, Operation
  <2>3. \A k \in Hosts : exec'[k].phase = "batch" =>
            /\ exec[k].phase = "batch" /\ exec'[k].pc = exec[k].pc
            /\ run'.owner = k => run.owner = k
    BY <2>1, OperationsAssumption
  <2> QED
    BY <2>1, <2>2, <2>3, SafeOutsideBatches DEF OpsInv
<1> QED
  BY <1>1, <1>2, <1>3, <1>4 DEF OutsideStep

-----------------------------------------------------------------------------
(* The theorems.                                                           *)

LEMMA OpsInitInv == OpsInit => OpsInv
<1> SUFFICES ASSUME OpsInit PROVE OpsInv
  OBVIOUS
<1>1. OpsTypeOK
  BY OpsInitTyped
<1>2. RunInv /\ CallInv
  BY DEF OpsInit, RunInv, CallInv, HasEnded, Ended, Idle
<1>3. ASSUME NEW c \in Never PROVE effects[c] + Cardinality(Starting(c)) <= Allowed(c)
  <2>1. c \in Call /\ Starting(c) = {}
    BY OperationsAssumption DEF OpsInit, Starting, Idle
  <2>2. effects[c] = 0 /\ Allowed(c) = 0
    BY <2>1 DEF OpsInit, Allowed
  <2> QED
    BY <2>1, <2>2, FS_EmptySet
<1> QED
  BY <1>1, <1>2, <1>3 DEF OpsInv, EffectsCovered

LEMMA OpsInvKept == OpsInv /\ [OpsNext]_opsVars => OpsInv'
<1> SUFFICES ASSUME OpsInv, [OpsNext]_opsVars PROVE OpsInv'
  OBVIOUS
<1>1. CASE UNCHANGED opsVars
  BY <1>1 DEF opsVars, OpsInv, OpsTypeOK, RunInv, CallInv, EffectsCovered, HasEnded, HasUnknown,
              Fenced, Starting, Allowed
<1>2. ASSUME NEW h \in Hosts, HostStep(h) \/ HostFault(h) PROVE OpsInv'
  BY <1>2, HostStepTyped, HostFaultTyped, RunInvOfHosts, SafeHosts DEF OpsInv
<1>3. CASE OutsideStep
  BY <1>3, OutsideTyped, RunInvOfCallers, SafeCallers DEF OpsInv
<1> QED
  BY <1>1, <1>2, <1>3 DEF OpsNext

\* The effect of a call that must never be replayed takes place at most once, and
\* at most twice when an operator resolved its unknown outcome with a retry.
THEOREM EffectsOnce == OpsSpec => []SideEffectOnce
<1>1. OpsInv => SideEffectOnce
  <2> SUFFICES ASSUME OpsInv, NEW c \in Never
               PROVE  effects[c] <= IF ops[c].resolution = "Retry" THEN 2 ELSE 1
    BY DEF SideEffectOnce
  <2>1. c \in Call /\ effects[c] \in Nat
    BY OperationsAssumption DEF OpsInv, OpsTypeOK
  <2>2. effects[c] + Cardinality(Starting(c)) <= Allowed(c)
    BY DEF OpsInv, EffectsCovered
  <2>3. Cardinality(Starting(c)) \in Nat
    BY <2>1, StartingIsFinite
  <2>4. Allowed(c) \in Nat /\ Allowed(c) <= IF ops[c].resolution = "Retry" THEN 2 ELSE 1
    BY DEF Allowed
  <2> QED
    BY <2>1, <2>2, <2>3, <2>4
<1> QED
  BY <1>1, OpsInitInv, OpsInvKept, PTL DEF OpsSpec

\* No host rewrites an outcome: the one that ended the Run has left its batch, a
\* commit finds an outcome that is there, and an expiry only takes what runs.
LEMMA HostsKeepOutcomes ==
    ASSUME OpsInv, NEW h \in Hosts, HostStep(h) \/ HostFault(h)
    PROVE  /\ \A c \in Call : ops[c].status \in {"succeeded", "failed", "cancelled"}
                                => ops'[c].status = ops[c].status
           /\ HasEnded => run'.status = run.status
<1>0. /\ OpsTypeOK /\ RunInv /\ run \in StoredRun /\ ops \in [Call -> Operation]
      /\ exec[h].active \in SUBSET Call
  BY DEF OpsInv, OpsTypeOK, Execution
<1> DEFINE Kept == /\ \A c \in Call : ops[c].status \in {"succeeded", "failed", "cancelled"}
                                        => ops'[c].status = ops[c].status
                   /\ HasEnded => run'.status = run.status
<1> SUFFICES Kept
  OBVIOUS
<1>1. ASSUME NEW S \in SUBSET Call, ops' = Expired(S),
             run' = [run EXCEPT !.status = StatusAfterExpiry(S)]
      PROVE  Kept
  BY <1>0, <1>1, OnlyUnknownIsAdded
<1>2. ASSUME ops' = ops, run'.status = run.status \/ ~HasEnded
      PROVE  Kept
  BY <1>2
<1>3. CASE CallStep(h)
  <2> PICK c \in Call : \/ Quiet(h, c) \/ Recording(h, c) \/ Beginning(h, c)
                        \/ Performing(h, c) \/ Committing(h, c)
    BY <1>0, <1>3, CallSteps
  <2>1. exec[h].phase = "batch"
    BY <1>0, <1>3, CallSteps
  <2>2. \A d \in Call : \A status : d # c => Settle(c, status)[d] = ops[d]
    BY <1>0 DEF Settle
  <2>3. CASE Committing(h, c)
    <3>1. ~HasEnded
      BY <1>0, <2>1, <2>3 DEF Committing, RunInv
    <3> QED
      BY <2>2, <2>3, <3>1 DEF Committing, CompletedStatuses
  <2>4. CASE ~Committing(h, c)
    <3>1. run'.status = run.status
      BY <2>4 DEF Quiet, Recording, Beginning, Performing
    <3>2. ops' = ops \/ (ops[c].status \in {"absent", "requested"} /\ \E status : ops' = Settle(c, status))
      BY <2>4 DEF Quiet, Recording, Beginning, Performing
    <3> QED
      BY <2>2, <3>1, <3>2
  <2> QED
    BY <2>3, <2>4
<1>4. CASE Claim(h)
  BY <1>2, <1>4 DEF Claim, HasEnded, Ended
<1>5. CASE Load(h)
  <2>1. CASE ~Fenced(h)
    BY <1>2, <1>5, <2>1 DEF Load
  <2>2. CASE Fenced(h)
    <3>1. ops' = Expired(Call)
      BY <1>5, <2>2 DEF Load
    <3>2. run' = [run EXCEPT !.status = StatusAfterExpiry(Call)]
      BY <1>5, <2>2 DEF Load
    <3> QED
      BY <1>1, <3>1, <3>2
  <2> QED
    BY <2>1, <2>2
<1>6. CASE \/ Release(h) \/ StageEnd(h) \/ Interrupt(h) \/ Reconciled(h) \/ CancelFails(h)
           \/ Crash(h) \/ LeaseLapses(h)
  BY <1>0, <1>2, <1>6 DEF Release, StageEnd, Interrupt, Reconciled, CancelFails, Crash, LeaseLapses,
                          StoredRun
<1>7. CASE Suspend(h) \/ Complete(h) \/ Fail(h)
  BY <1>2, <1>7 DEF Suspend, Complete, Fail
<1>8. CASE SettleActive(h) \/ Abandon(h)
  <2>1. \/ ops' = ops /\ run' = run
        \/ /\ ops' = Expired(exec[h].active)
           /\ run' = [run EXCEPT !.status = StatusAfterExpiry(exec[h].active)]
    BY <1>8 DEF SettleActive, Abandon
  <2> QED
    BY <1>0, <1>1, <1>2, <2>1
<1>9. ASSUME NEW c \in Call, Acknowledge(h, c) PROVE Kept
  <2>1. run' = run
    BY <1>9 DEF Acknowledge
  <2>2. \A d \in Call : ops'[d] = ops[d] \/ ops[d].status = "cancelling"
    BY <1>0, <1>9 DEF Acknowledge, Settle
  <2> QED
    BY <2>1, <2>2
<1> QED
  BY <1>3, <1>4, <1>5, <1>6, <1>7, <1>8, <1>9 DEF HostStep, HostFault

LEMMA CallersKeepOutcomes ==
    ASSUME OpsInv, OutsideStep
    PROVE  /\ \A c \in Call : ops[c].status \in {"succeeded", "failed", "cancelled"}
                                => ops'[c].status = ops[c].status
           /\ HasEnded => run'.status = run.status
<1>0. ops \in [Call -> Operation]
  BY DEF OpsInv, OpsTypeOK
<1>1. CASE Cancel
  BY <1>0, <1>1, Cancelling DEF Cancel, OpsInv, OpsTypeOK
<1>2. ASSUME NEW c \in Call, Respond(c) PROVE ~HasEnded /\ ops' = ops
  BY <1>2 DEF Respond
<1>3. ASSUME NEW c \in Call, Resolve(c)
      PROVE  /\ ~HasEnded /\ ops[c].status = "unknown"
             /\ \A d \in Call \ {c} : \/ ops'[d] = ops[d]
                                     \/ ops[d].status \in {"requested", "running", "unknown"}
  <2> PICK o \in [Call -> Operation], r \in StoredRun :
          /\ Resolved(c, o, r)
          /\ ops' = Marked(o) \/ ops' = o
    BY <1>3, ResolutionTyped DEF OpsInv
  <2>1. ~HasEnded /\ ops[c].status = "unknown"
    BY <1>3 DEF Resolve, HasEnded, Ended
  <2> QED
    BY <2>1, Cancelling DEF Resolved
<1>4. ASSUME NEW c \in Call, OperatorRetry(c)
      PROVE  ~HasEnded /\ ops[c].status = "running" /\ \A d \in Call \ {c} : ops'[d] = ops[d]
  BY <1>0, <1>4 DEF OperatorRetry, Settle
<1> QED
  BY <1>1, <1>2, <1>3, <1>4 DEF OutsideStep

\* The recorded outcome of an operation and the end of the Run are final.
THEOREM OutcomesFinal == OpsSpec => OutcomesAreFinal
<1>1. OpsInv /\ [OpsNext]_opsVars =>
        [/\ \A c \in Call : ops[c].status \in {"succeeded", "failed", "cancelled"}
                              => ops'[c].status = ops[c].status
         /\ HasEnded => run'.status = run.status]_opsVars
  BY HostsKeepOutcomes, CallersKeepOutcomes DEF OpsNext, opsVars
<1> QED
  BY <1>1, OpsInitInv, OpsInvKept, PTL DEF OpsSpec, OutcomesAreFinal

-----------------------------------------------------------------------------
(* The batch is followed.                                                  *)

Before(c) == {d \in 1..(c - 1) : ~SameStage(d, c)}
Succeeded(c) == ops[c].status = "succeeded"
Vouched(c) == Succeeded(c) => effects[c] > 0 \/ ops[c].resolution = "Succeeded"

StartsInOrder ==
    \A c \in Call : ops[c].status # "absent" =>
        /\ \A d \in Before(c) : Succeeded(d)
        /\ c \in Gated => run.waits[c] = "approved"
SuccessIsWhole == run.status = "succeeded" => \A c \in Call : Succeeded(c) /\ Vouched(c)

\* The state of a call in a checkpoint fits its operation and its wait.
FitsAt(c, state) ==
    /\ state = "completed" => Succeeded(c)
    /\ state \in {"approved", "scheduled"} /\ c \in Gated => run.waits[c] = "approved"
    /\ state = "ready" => run.waits[c] = "absent"
Fits(batch) == \A c \in Call : FitsAt(c, batch[c])

\* And so does what an execution does with it.
CallAt(c, pc, state, answer) ==
    /\ pc = "authorize" /\ c \in Gated /\ state # "ready" => answer = "approved"
    /\ pc \in {"execute", "recorded", "running", "performed"} /\ c \in Gated
            => run.waits[c] = "approved"
    /\ pc \in {"running", "performed"} => ops[c].status = "running"
    /\ pc = "done" => Succeeded(c) \/ (state = "waiting" /\ answer \notin {"approved", "denied"})

\* What holds of every execution, of one that has lost its claim too.
MemoryOf(h) ==
    /\ exec[h].phase = "loading" => exec[h].at = 1
    /\ exec[h].phase = "reconciling" => run.cancellationRequested
    /\ \A c \in Call :
        /\ exec[h].answers[c] \in {"approved", "denied"} => run.waits[c] = exec[h].answers[c]
        /\ exec[h].phase = "batch" =>
            /\ exec[h].pc[c] \in {"recorded", "running", "performed"} => ops[c].status # "absent"
            /\ exec[h].pc[c] = "performed" => effects[c] > 0
MemoryFits == \A h \in Hosts : MemoryOf(h)

\* And of the one that has the claim, until the Run is cancelled.
Follows(h) ==
    /\ exec[h].phase = "batch" =>
        /\ exec[h].at \in Call
        /\ \A d \in 1..(exec[h].at - 1) : ~SameStage(d, exec[h].at) /\ Succeeded(d)
        /\ \A c \in Call : CallAt(c, exec[h].pc[c], exec[h].batch[c], exec[h].answers[c])
        /\ Fits(exec[h].batch)
    /\ exec[h].phase = "suspending" => run.checkpoint = exec[h].batch
    /\ exec[h].phase = "completing" => \A c \in Call : Succeeded(c)

FollowInv ==
    /\ StartsInOrder /\ SuccessIsWhole /\ MemoryFits
    /\ ~run.cancellationRequested =>
        /\ Fits(run.checkpoint)
        /\ \A c \in Call : Vouched(c)
        /\ \A h \in Hosts : Fenced(h) => Follows(h)

LEMMA StagesInOrder ==
    ASSUME NEW a \in Call, NEW c \in Stage(a)
    PROVE  c \in Call /\ c >= a /\ \A d \in Before(c) : d \in 1..(a - 1)
<1>1. c \in Call /\ c >= a /\ SameStage(a, c)
  BY DEF Stage
<1>2. ASSUME NEW d \in Before(c) PROVE d < a
  <2>1. d \in Call /\ d < c /\ ~SameStage(d, c)
    BY <1>1, OperationsAssumption DEF Before, Call
  <2>2. CASE d >= a
    <3>1. a..c \subseteq ParallelSafe
      BY <1>1, <2>1, <2>2 DEF SameStage, Call
    <3>2. d..c \subseteq a..c
      BY <1>1, <2>1, <2>2 DEF Call
    <3> QED
      BY <2>1, <3>1, <3>2 DEF SameStage
  <2> QED
    BY <2>1, <2>2 DEF Call
<1> QED
  BY <1>1, <1>2, OperationsAssumption DEF Before, Call

LEMMA NextStage ==
    ASSUME NEW a \in Call, NEW next \in Call \ Stage(a), next - 1 \in Stage(a),
           \A d \in 1..(a - 1) : ~SameStage(d, a)
    PROVE  \A d \in 1..(next - 1) : ~SameStage(d, next) /\ (d \in 1..(a - 1) \/ d \in Stage(a))
<1> SUFFICES ASSUME NEW d \in 1..(next - 1)
             PROVE  ~SameStage(d, next) /\ (d \in 1..(a - 1) \/ d \in Stage(a))
  OBVIOUS
<1>1. /\ a \in Nat /\ next \in Nat /\ d \in Nat /\ d \in Call /\ a >= 1
      /\ next - 1 >= a /\ SameStage(a, next - 1) /\ ~SameStage(a, next)
      /\ next - 1 \in Nat /\ d < next
  BY OperationsAssumption DEF Stage, Call
<1>2. CASE d < a
  <2>1. d \in 1..(a - 1)
    BY <1>1, <1>2
  <2>2. ASSUME SameStage(d, next) PROVE FALSE
    <3>1. d..next \subseteq ParallelSafe
      BY <1>1, <2>2 DEF SameStage
    <3>2. d..a \subseteq d..next
      BY <1>1, <1>2
    <3> QED
      BY <1>1, <1>2, <2>1, <3>1, <3>2 DEF SameStage
  <2> QED
    BY <2>1, <2>2
<1>3. CASE d >= a
  <2>1. a..(next - 1) \subseteq ParallelSafe \/ a = next - 1
    BY <1>1 DEF SameStage
  <2>2. d \in Stage(a)
    <3>1. CASE a = d
      BY <1>1, <3>1 DEF Stage, SameStage
    <3>2. CASE a # d
      <4>1. a..(next - 1) \subseteq ParallelSafe
        BY <1>1, <1>3, <2>1, <3>2
      <4>2. a..d \subseteq a..(next - 1)
        BY <1>1, <1>3
      <4> QED
        BY <1>1, <1>3, <3>2, <4>1, <4>2 DEF Stage, SameStage
    <3> QED
      BY <3>1, <3>2
  <2>3. ASSUME SameStage(d, next) PROVE FALSE
    <3>1. d..next \subseteq ParallelSafe
      BY <1>1, <2>3 DEF SameStage
    <3>2. a..next \subseteq ParallelSafe
      <4> SUFFICES ASSUME NEW x \in a..next PROVE x \in ParallelSafe
        OBVIOUS
      <4>1. CASE x \in d..next
        BY <3>1, <4>1
      <4>2. CASE x \notin d..next
        <5>1. x \in a..(next - 1) /\ a # next - 1
          BY <1>1, <1>3, <4>2
        <5> QED
          BY <2>1, <5>1
      <4> QED
        BY <4>1, <4>2
    <3> QED
      BY <1>1, <3>2 DEF SameStage
  <2> QED
    BY <2>2, <2>3
<1> QED
  BY <1>1, <1>2, <1>3

LEMMA LastStage ==
    ASSUME NEW a \in Call, Calls \in Stage(a)
    PROVE  \A c \in Call : c \in 1..(a - 1) \/ c \in Stage(a)
<1> SUFFICES ASSUME NEW c \in Call, ~(c \in 1..(a - 1)) PROVE c \in Stage(a)
  OBVIOUS
<1>1. a \in Nat /\ c \in Nat /\ Calls \in Nat /\ a <= c /\ c <= Calls /\ SameStage(a, Calls)
  BY OperationsAssumption DEF Stage, Call
<1>2. CASE a = c
  BY <1>1, <1>2 DEF Stage, SameStage
<1>3. CASE a # c
  <2>1. a..Calls \subseteq ParallelSafe
    BY <1>1, <1>3 DEF SameStage
  <2>2. a..c \subseteq a..Calls
    BY <1>1
  <2> QED
    BY <1>1, <1>3, <2>1, <2>2 DEF Stage, SameStage
<1> QED
  BY <1>2, <1>3

-----------------------------------------------------------------------------
(* What a step of a host leaves alone.                                     *)

\* A step of the host h: the others go on with what they have; only the present
\* claim writes; answers, outcomes and effects that are there stay.
HostChanges(h) ==
    /\ \A k \in Hosts \ {h} : exec'[k] = exec[k]
    /\ \/ run'.owner \in {run.owner, NoHost}
       \/ run'.owner = h /\ run.status \in {"running", "cancelling"}
    /\ run'.cancellationRequested = run.cancellationRequested
    /\ ~Fenced(h) /\ run'.owner # h => run' = run /\ ops' = ops
    /\ \A c \in Call : /\ ops'[c].resolution = ops[c].resolution
                       /\ ops[c].status # "absent" => ops'[c].status # "absent"
    /\ \A c \in Call : \/ run'.waits[c] = run.waits[c]
                       \/ /\ run.cancellationRequested
                          /\ run.waits[c] = "open" /\ run'.waits[c] = "cancelled"
                       \/ /\ exec[h].phase = "suspending" /\ Fenced(h) /\ c \in Unanswered(h)
                          /\ run.waits[c] \in {"absent", "open"} /\ run'.waits[c] = "open"
                          /\ run'.checkpoint = run.checkpoint /\ run'.status = "waiting"
    /\ \A c \in Call : ops[c].status = "absent" /\ ops'[c].status # "absent" =>
            /\ Fenced(h) /\ ~run.cancellationRequested
            /\ exec[h].phase = "batch" /\ exec[h].pc[c] = "execute" /\ c \in Stage(exec[h].at)
    /\ run'.status = "succeeded" => \/ run.status = "succeeded"
                                    \/ /\ exec[h].phase = "completing" /\ Fenced(h)
                                       /\ ~run.cancellationRequested

\* A step that saves no checkpoint and records nothing.
LEMMA PlainChanges ==
    ASSUME OpsTypeOK, NEW h \in Hosts,
           \A k \in Hosts \ {h} : exec'[k] = exec[k],
           \/ run'.owner \in {run.owner, NoHost}
           \/ run'.owner = h /\ run.status \in {"running", "cancelling"},
           run'.cancellationRequested = run.cancellationRequested,
           ~Fenced(h) /\ run'.owner # h => run' = run /\ ops' = ops,
           run'.waits = run.waits,
           run'.status = "succeeded" => run.status = "succeeded",
           \A c \in Call : /\ ops'[c].resolution = ops[c].resolution
                           /\ ops[c].status = "absent" <=> ops'[c].status = "absent"
    PROVE  HostChanges(h)
BY DEF HostChanges

LEMMA CallChanges ==
    ASSUME OpsTypeOK, MemoryFits, NEW h \in Hosts, CallStep(h)
    PROVE  HostChanges(h) /\ run'.waits = run.waits
<1> PICK c \in Call : \/ Authorize(h, c) \/ Record(h, c) \/ Begin(h, c) \/ Perform(h, c)
                      \/ Succeed(h, c) \/ Reject(h, c) \/ Defect(h, c)
  BY DEF CallStep
<1>0. run \in StoredRun /\ ops \in [Call -> Operation]
  BY DEF OpsTypeOK
<1>1. \A k \in Hosts \ {h} : exec'[k] = exec[k]
  BY CallSteps DEF Quiet, Recording, Beginning, Performing, Committing, Moves
<1>2. KeepsRun
  BY CallSteps
<1>3. run'.waits = run.waits
  BY <1>0 DEF Authorize, Record, Begin, Perform, Succeed, Reject, Defect, Refused, Commit, StoredRun
<1>4. \A d \in Call : /\ ops'[d].resolution = ops[d].resolution
                      /\ ops[d].status # "absent" => ops'[d].status # "absent"
  BY <1>0 DEF Authorize, Record, Begin, Perform, Succeed, Reject, Defect, Refused, Commit, Settle,
              Operation
<1>5. ~Fenced(h) => run' = run /\ ops' = ops
  BY DEF Authorize, Record, Begin, Perform, Succeed, Reject, Defect, Refused, Commit, Accepts
<1>6. run'.status \in {run.status, "needs-resolution"}
  BY <1>0 DEF Authorize, Record, Begin, Perform, Succeed, Reject, Defect, Refused, Commit, StoredRun
<1>7. ASSUME NEW d \in Call, ops[d].status = "absent", ops'[d].status # "absent"
      PROVE  /\ Fenced(h) /\ ~run.cancellationRequested
             /\ exec[h].phase = "batch" /\ exec[h].pc[d] = "execute" /\ d \in Stage(exec[h].at)
  <2> USE <1>7
  <2>1. CASE Record(h, c)
    <3>1. \A status : Settle(c, status)[d] = ops[d] \/ c = d
      BY <1>0 DEF Settle
    <3> QED
      BY <2>1, <3>1 DEF Record, Refused, InStage, Accepts
  <2>2. CASE Begin(h, c)
    <3>1. \A status : Settle(c, status)[d] = ops[d] \/ c = d
      BY <1>0 DEF Settle
    <3>2. c # d
      BY <2>2 DEF Begin, InStage, MemoryFits, MemoryOf
    <3> QED
      BY <2>2, <3>1, <3>2 DEF Begin, Refused
  <2>3. CASE Authorize(h, c) \/ Perform(h, c)
    BY <2>3 DEF Authorize, Perform, Refused
  <2>4. CASE Succeed(h, c) \/ Reject(h, c) \/ Defect(h, c)
    <3>1. \A status : Settle(c, status)[d] = ops[d] \/ c = d
      BY <1>0 DEF Settle
    <3>2. c # d
      BY <2>4 DEF Succeed, Reject, Defect, InStage, MemoryFits, MemoryOf
    <3> QED
      BY <2>4, <3>1, <3>2 DEF Succeed, Reject, Defect, Refused, Commit
  <2> QED
    BY <2>1, <2>2, <2>3, <2>4
<1> QED
  BY <1>1, <1>2, <1>3, <1>4, <1>5, <1>6, <1>7 DEF HostChanges, KeepsRun

LEMMA HostsChange ==
    ASSUME OpsTypeOK, MemoryFits, NEW h \in Hosts, HostStep(h) \/ HostFault(h)
    PROVE  HostChanges(h)
<1>0. /\ h # NoHost /\ exec \in [Hosts -> Execution] /\ run \in StoredRun
      /\ ops \in [Call -> Operation] /\ exec[h].active \in SUBSET Call
      /\ {"settling", "completing", "failing", "suspending", "leaving"} \subseteq Phases
  BY OperationsAssumption DEF OpsTypeOK, Phases, Execution
<1>1. ASSUME NEW S \in SUBSET Call, Fenced(h), ops' = Expired(S),
             run' = [run EXCEPT !.status = StatusAfterExpiry(S)],
             \A k \in Hosts \ {h} : exec'[k] = exec[k]
      PROVE  HostChanges(h)
  <2>1. /\ \A c \in Call : /\ ops'[c].resolution = ops[c].resolution
                           /\ ops[c].status = "absent" <=> ops'[c].status = "absent"
        /\ run'.status \in {run.status, "needs-resolution"}
        /\ run'.owner = run.owner /\ run'.cancellationRequested = run.cancellationRequested
    BY <1>1, OnlyUnknownIsAdded
  <2>2. run'.waits = run.waits
    BY <1>0, <1>1 DEF StoredRun
  <2> QED
    BY <1>1, <2>1, <2>2, PlainChanges
<1>2. ASSUME run' = run, ops' = ops, \A k \in Hosts \ {h} : exec'[k] = exec[k]
      PROVE  HostChanges(h)
  BY <1>2, PlainChanges
<1>3. CASE Claim(h)
  <2>1. /\ run'.owner = h /\ run'.status # "succeeded" /\ run'.waits = run.waits
        /\ run.status \in {"running", "cancelling"}
        /\ run'.cancellationRequested = run.cancellationRequested
        /\ ops' = ops /\ \A k \in Hosts \ {h} : exec'[k] = exec[k]
    BY <1>0, <1>3 DEF Claim, StoredRun
  <2> QED
    BY <2>1, PlainChanges
<1>4. CASE Load(h)
  <2>1. CASE ~Fenced(h)
    <3>1. Leave(h) /\ run' = run /\ ops' = ops
      BY <1>4, <2>1 DEF Load
    <3> QED
      BY <1>0, <1>2, <3>1, Exits
  <2>2. CASE Fenced(h)
    <3>1. ops' = Expired(Call)
      BY <1>4, <2>2 DEF Load
    <3>2. run' = [run EXCEPT !.status = StatusAfterExpiry(Call)]
      BY <1>4, <2>2 DEF Load
    <3>3. \A k \in Hosts \ {h} : exec'[k] = exec[k]
      BY <1>0, <1>4, <2>2 DEF Load
    <3> QED
      BY <1>1, <2>2, <3>1, <3>2, <3>3
  <2> QED
    BY <2>1, <2>2
<1>5. CASE Release(h) \/ Crash(h) \/ LeaseLapses(h)
  <2>1. /\ run' = IF Fenced(h) THEN [run EXCEPT !.owner = NoHost] ELSE run
        /\ ops' = ops /\ \A k \in Hosts \ {h} : exec'[k] = exec[k]
    BY <1>0, <1>5 DEF Release, Crash, LeaseLapses
  <2>2. CASE Fenced(h)
    <3>1. /\ run'.owner = NoHost /\ run'.status = run.status /\ run'.waits = run.waits
          /\ run'.cancellationRequested = run.cancellationRequested
      BY <1>0, <2>1, <2>2 DEF StoredRun
    <3> QED
      BY <2>1, <2>2, <3>1, PlainChanges
  <2> QED
    BY <1>2, <2>1, <2>2
<1>6. CASE CallStep(h)
  BY <1>6, CallChanges
<1>7. CASE StageEnd(h)
  <2>1. \A k \in Hosts \ {h} : exec'[k] = exec[k]
    <3>1. CASE Leave(h) \/ \E phase \in Phases : exec' = To(h, phase)
      BY <1>0, <3>1, Exits
    <3>2. CASE ~(Leave(h) \/ \E phase \in Phases : exec' = To(h, phase))
      BY <1>0, <1>7, <3>2 DEF StageEnd
    <3> QED
      BY <3>1, <3>2
  <2>2. CASE Fenced(h)
    <3>1. /\ run'.owner = run.owner /\ run'.status = run.status /\ run'.waits = run.waits
          /\ run'.cancellationRequested = run.cancellationRequested /\ ops' = ops
      BY <1>0, <1>7 DEF StageEnd, StoredRun
    <3> QED
      BY <2>1, <2>2, <3>1, PlainChanges
  <2>3. CASE ~Fenced(h)
    BY <1>2, <1>7, <2>1, <2>3 DEF StageEnd, Accepts
  <2> QED
    BY <2>2, <2>3
<1>8. CASE Suspend(h)
  <2>1. /\ Leave(h) /\ ops' = ops /\ exec[h].phase = "suspending"
        /\ \A k \in Hosts \ {h} : exec'[k] = exec[k]
    BY <1>0, <1>8, Exits DEF Suspend
  <2>2. CASE run' = run
    BY <1>2, <2>1, <2>2
  <2>3. CASE run' # run
    <3>1. /\ Fenced(h) /\ \A c \in Unanswered(h) : run.waits[c] \in {"absent", "open"}
          /\ run' = [run EXCEPT !.status = "waiting", !.owner = NoHost,
                     !.waits = [c \in Call |-> IF c \in Unanswered(h) THEN "open" ELSE @[c]]]
      BY <1>8, <2>3 DEF Suspend
    <3>2. /\ run'.owner = NoHost /\ run'.status = "waiting"
          /\ run'.checkpoint = run.checkpoint
          /\ run'.cancellationRequested = run.cancellationRequested
      BY <1>0, <3>1 DEF StoredRun
    <3>3. \A c \in Call : run'.waits[c] = IF c \in Unanswered(h) THEN "open" ELSE run.waits[c]
      BY <1>0, <3>1 DEF StoredRun
    <3> QED
      BY <2>1, <3>1, <3>2, <3>3 DEF HostChanges
  <2> QED
    BY <2>2, <2>3
<1>9. ASSUME NEW status \in {"succeeded", "failed"}, Leave(h), ops' = ops,
             status = "succeeded" => exec[h].phase = "completing",
             run' = IF Fenced(h) /\ ~HasEnded THEN Finished(status) ELSE run
      PROVE  HostChanges(h)
  <2>1. \A k \in Hosts \ {h} : exec'[k] = exec[k]
    BY <1>0, <1>9, Exits
  <2>2. CASE run' = run
    BY <1>2, <1>9, <2>1, <2>2
  <2>3. CASE run' # run
    <3>1. Fenced(h) /\ ~HasEnded /\ run' = Finished(status)
      BY <1>9, <2>3
    <3>2. /\ run'.owner \in {run.owner, NoHost}
          /\ run'.cancellationRequested = run.cancellationRequested
          /\ \A c \in Call : \/ run'.waits[c] = run.waits[c]
                             \/ /\ run.cancellationRequested
                                /\ run.waits[c] = "open" /\ run'.waits[c] = "cancelled"
          /\ run'.status = "succeeded" => ~run.cancellationRequested /\ status = "succeeded"
      BY <1>0, <3>1 DEF Finished, StoredRun, CancelWaits, HasEnded, Ended
    <3> QED
      BY <1>9, <2>1, <3>1, <3>2 DEF HostChanges
  <2> QED
    BY <2>2, <2>3
<1>10. CASE Complete(h)
  BY <1>9, <1>10 DEF Complete
<1>11. CASE Fail(h)
  BY <1>9, <1>11 DEF Fail
<1>12. CASE SettleActive(h)
  <2>1. CASE exec[h].active # {} /\ ~Fenced(h)
    <3>1. Leave(h) /\ run' = run /\ ops' = ops
      BY <1>12, <2>1 DEF SettleActive
    <3> QED
      BY <1>0, <1>2, <3>1, Exits
  <2>2. CASE ~(exec[h].active # {} /\ ~Fenced(h))
    <3>1. /\ ops' = Expired(exec[h].active)
          /\ run' = [run EXCEPT !.status = StatusAfterExpiry(exec[h].active)]
          /\ \A k \in Hosts \ {h} : exec'[k] = exec[k]
      BY <1>0, <1>12, <2>2 DEF SettleActive
    <3>2. CASE Fenced(h)
      BY <1>0, <1>1, <3>1, <3>2
    <3>3. CASE ~Fenced(h)
      <4>1. exec[h].active = {}
        BY <2>2, <3>3
      <4>2. ops' = ops
        BY <1>0, <3>1, <4>1 DEF Expired
      <4>3. run' = run
        BY <1>0, <3>1, <4>1 DEF StatusAfterExpiry, StoredRun
      <4> QED
        BY <1>2, <3>1, <4>2, <4>3
    <3> QED
      BY <3>2, <3>3
  <2> QED
    BY <2>1, <2>2
<1>13. CASE Interrupt(h) \/ Reconciled(h) \/ CancelFails(h)
  <2>1. /\ run' = run /\ ops' = ops
        /\ Leave(h) \/ \E phase \in Phases : exec' = To(h, phase)
    BY <1>0, <1>13 DEF Interrupt, Reconciled, CancelFails
  <2> QED
    BY <1>0, <1>2, <2>1, Exits
<1>14. ASSUME NEW c \in Call, Acknowledge(h, c) PROVE HostChanges(h)
  <2>1. run' = run /\ \A k \in Hosts \ {h} : exec'[k] = exec[k]
    BY <1>0, <1>14, Exits DEF Acknowledge
  <2>2. CASE ops' = ops
    BY <1>2, <2>1, <2>2
  <2>3. CASE ops' # ops
    <3>1. /\ Fenced(h) /\ ops[c].status = "cancelling"
          /\ \E status \in {"cancelled", "succeeded"} : ops' = Settle(c, status)
      BY <1>14, <2>3 DEF Acknowledge
    <3>2. \A d \in Call : /\ ops'[d].resolution = ops[d].resolution
                          /\ ops[d].status = "absent" <=> ops'[d].status = "absent"
      BY <1>0, <3>1 DEF Settle, Operation
    <3> QED
      BY <2>1, <3>1, <3>2, PlainChanges
  <2> QED
    BY <2>2, <2>3
<1>15. CASE Abandon(h)
  <2>1. \A k \in Hosts \ {h} : exec'[k] = exec[k]
    BY <1>0, <1>15, Exits DEF Abandon
  <2>2. CASE Fenced(h)
    BY <1>0, <1>1, <1>15, <2>1, <2>2 DEF Abandon
  <2>3. CASE ~Fenced(h)
    BY <1>2, <1>15, <2>1, <2>3 DEF Abandon
  <2> QED
    BY <2>2, <2>3
<1> QED
  BY <1>3, <1>4, <1>5, <1>6, <1>7, <1>8, <1>10, <1>11, <1>12, <1>13, <1>14, <1>15
     DEF HostStep, HostFault

\* What a step of anybody leaves as it is.
Grows ==
    /\ \A c \in Call : Succeeded(c) => /\ ops'[c].status = "succeeded"
                                       /\ ops'[c].resolution = ops[c].resolution
    /\ \A c \in Call : run.waits[c] \in {"approved", "denied"} => run'.waits[c] = run.waits[c]
    /\ \A c \in Call : /\ effects[c] > 0 => effects'[c] > 0
                       /\ ops[c].status # "absent" => ops'[c].status # "absent"
    /\ run.cancellationRequested => run'.cancellationRequested

LEMMA HostsGrow ==
    ASSUME OpsInv, MemoryFits, NEW h \in Hosts, HostStep(h) \/ HostFault(h)
    PROVE  Grows
<1>1. OpsTypeOK /\ effects \in [Call -> Nat]
  BY DEF OpsInv, OpsTypeOK
<1>2. HostChanges(h)
  BY <1>1, HostsChange
<1>3. \A c \in Call : effects[c] > 0 => effects'[c] > 0
  <2>1. CASE CallStep(h)
    <3> PICK d \in Call : \/ effects' = effects
                          \/ effects' = [effects EXCEPT ![d] = @ + 1]
      BY <1>1, <2>1, CallSteps DEF Quiet, Recording, Beginning, Performing, Committing
    <3> QED
      BY <1>1
  <2>2. CASE ~CallStep(h)
    BY <2>2 DEF HostStep, HostFault, Claim, Load, Release, StageEnd, Suspend, Complete, SettleActive,
                Fail, Interrupt, Reconciled, Acknowledge, Abandon, CancelFails, Crash, LeaseLapses
  <2> QED
    BY <2>1, <2>2
<1>4. \A c \in Call : Succeeded(c) => ops'[c].status = "succeeded"
  BY HostsKeepOutcomes DEF Succeeded
<1> QED
  BY <1>2, <1>3, <1>4 DEF Grows, HostChanges

-----------------------------------------------------------------------------
(* The step of a call under the present claim.                             *)

CallMoved(h, c, pc, state) ==
    /\ \A k \in Hosts \ {h} : exec'[k] = exec[k]
    /\ exec'[h].phase = exec[h].phase /\ exec'[h].at = exec[h].at
    /\ exec'[h].answers = exec[h].answers
    /\ exec'[h].pc = [exec[h].pc EXCEPT ![c] = pc]
    /\ exec'[h].batch = [exec[h].batch EXCEPT ![c] = state]

LEMMA MovingOn ==
    ASSUME OpsTypeOK, NEW h \in Hosts, NEW c \in Call, NEW pc
    PROVE  /\ exec' = [exec EXCEPT ![h].pc[c] = pc] => CallMoved(h, c, pc, exec[h].batch[c])
           /\ \A state : exec' = Step(h, c, pc, state) => CallMoved(h, c, pc, state)
           /\ \A state, S : exec' = [Step(h, c, pc, state) EXCEPT ![h].active = S]
                                => CallMoved(h, c, pc, state)
           /\ Refused(h, c) => CallMoved(h, c, "failed", exec[h].batch[c])
<1>1. exec[h] \in Execution /\ exec \in [Hosts -> Execution]
  BY DEF OpsTypeOK
<1>2. exec[h].batch = [exec[h].batch EXCEPT ![c] = exec[h].batch[c]]
  BY BatchField DEF Batches
<1>3. exec' = [exec EXCEPT ![h].pc[c] = pc] => CallMoved(h, c, pc, exec[h].batch[c])
  BY <1>1, <1>2 DEF CallMoved, Execution
<1>4. \A state : exec' = Step(h, c, pc, state) => CallMoved(h, c, pc, state)
  BY <1>1 DEF CallMoved, Step, Execution
<1>5. \A state, S : exec' = [Step(h, c, pc, state) EXCEPT ![h].active = S]
                                => CallMoved(h, c, pc, state)
  BY <1>1 DEF CallMoved, Step, Execution
<1>6. Refused(h, c) => CallMoved(h, c, "failed", exec[h].batch[c])
  BY <1>1, <1>2 DEF CallMoved, Refused, Execution
<1> QED
  BY <1>3, <1>4, <1>5, <1>6

\* A call goes on in its execution, and what is held and saved of it fits its
\* operation and its wait.
CallProceeds(h, c, pc, state) ==
    /\ CallMoved(h, c, pc, state)
    /\ FitsAt(c, state)' /\ CallAt(c, pc, state, exec[h].answers[c])'
    /\ \/ run'.checkpoint = run.checkpoint
       \/ \E saved : /\ run'.checkpoint = [exec[h].batch EXCEPT ![c] = saved] /\ FitsAt(c, saved)'
                       /\ saved \in {state, "scheduled"}
    /\ \A d \in Call \ {c} : ops'[d] = ops[d]
    /\ Vouched(c)'
    /\ c \in Stage(exec[h].at)
    /\ state = "waiting" => exec[h].batch[c] = "waiting" \/ (c \in Gated /\ exec[h].batch[c] = "ready")

LEMMA CallsProceed ==
    ASSUME OpsInv, MemoryFits, NEW h \in Hosts, Fenced(h), ~run.cancellationRequested, Follows(h),
           \A c \in Call : Vouched(c), CallStep(h)
    PROVE  \E c \in Call : \E pc, state : CallProceeds(h, c, pc, state)
<1> PICK c \in Call : \/ Authorize(h, c) \/ Record(h, c) \/ Begin(h, c) \/ Perform(h, c)
                      \/ Succeed(h, c) \/ Reject(h, c) \/ Defect(h, c)
  BY DEF CallStep
<1> SUFFICES \E pc, state : CallProceeds(h, c, pc, state)
  OBVIOUS
<1> PICK held, answer : held = exec[h].batch[c] /\ answer = exec[h].answers[c]
  OBVIOUS
<1>0. /\ OpsTypeOK /\ run \in StoredRun /\ ops \in [Call -> Operation] /\ effects \in [Call -> Nat]
      /\ exec \in [Hosts -> Execution] /\ exec[h] \in Execution
  BY DEF OpsInv, OpsTypeOK
<1>1. exec[h].phase = "batch" /\ c \in Stage(exec[h].at)
  BY DEF Authorize, Record, Begin, Perform, Succeed, Reject, Defect, InStage
<1>2. /\ FitsAt(c, held) /\ CallAt(c, exec[h].pc[c], held, answer)
      /\ answer \in {"approved", "denied"} => run.waits[c] = answer
      /\ exec[h].pc[c] = "performed" => effects[c] > 0
  BY <1>1 DEF Follows, Fits, MemoryFits, MemoryOf
<1>3. run'.waits = run.waits /\ exec'[h].answers = exec[h].answers
  <2>1. exec'[h].answers = exec[h].answers
    BY <1>0 DEF Authorize, Record, Begin, Perform, Succeed, Reject, Defect, Refused, Commit, Step,
                Execution
  <2> QED
    BY <1>0, <2>1, CallChanges
<1>4. \A d \in Call \ {c} : \A status : Settle(c, status)[d] = ops[d]
  BY <1>0 DEF Settle
<1>5. \A status : Settle(c, status)[c].status = status /\ Settle(c, status)[c].resolution = ops[c].resolution
  BY <1>0 DEF Settle, Operation
\* The call fails, and its operation stays.
<1>6. ASSUME ops' = ops, effects' = effects \/ effects'[c] > 0, run'.checkpoint = run.checkpoint,
             CallMoved(h, c, "failed", held)
      PROVE  CallProceeds(h, c, "failed", held)
  BY <1>1, <1>2, <1>3, <1>6 DEF CallProceeds, FitsAt, CallAt, Vouched, Succeeded
<1>7. CASE Refused(h, c) /\ effects' = effects
  <2>1. CallMoved(h, c, "failed", held)
    BY <1>0, <1>7, MovingOn
  <2> QED
    BY <1>6, <1>7, <2>1 DEF Refused
<1>8. CASE Authorize(h, c) /\ ~Refused(h, c)
  <2> DEFINE suspends == c \in Gated /\ held = "ready"
             state == IF suspends THEN "waiting" ELSE "approved"
             pc == IF suspends THEN "done" ELSE "execute"
  <2>1. /\ exec[h].pc[c] = "authorize" /\ exec' = Step(h, c, pc, state)
        /\ run' = [run EXCEPT !.checkpoint = [exec[h].batch EXCEPT ![c] = state]]
        /\ ops' = ops /\ effects' = effects
    BY <1>8 DEF Authorize, InStage
  <2>2. CallMoved(h, c, pc, state)
    BY <1>0, <2>1, MovingOn
  <2>3. run'.checkpoint = [exec[h].batch EXCEPT ![c] = state]
    BY <1>0, <2>1 DEF StoredRun
  <2>4. FitsAt(c, state)' /\ CallAt(c, pc, state, answer)'
    BY <1>2, <1>3, <2>1 DEF FitsAt, CallAt, Succeeded
  <2> QED
    BY <1>1, <1>3, <2>1, <2>2, <2>3, <2>4 DEF CallProceeds, Vouched, Succeeded
<1>9. CASE Record(h, c) /\ ~Refused(h, c)
  <2>1. /\ exec[h].pc[c] = "execute" /\ exec' = [exec EXCEPT ![h].pc[c] = "recorded"]
        /\ effects' = effects
        /\ \/ UNCHANGED <<run, ops>>
           \/ /\ ops' = Settle(c, "requested") /\ ops[c].status = "absent"
              /\ run' = [run EXCEPT !.checkpoint = [exec[h].batch EXCEPT ![c] = "scheduled"]]
    BY <1>9 DEF Record, InStage
  <2>2. CallMoved(h, c, "recorded", held)
    BY <1>0, <2>1, MovingOn
  <2>3. /\ \A d \in Call \ {c} : ops'[d] = ops[d]
        /\ Succeeded(c)' <=> Succeeded(c)
        /\ ops'[c].resolution = ops[c].resolution
    BY <1>4, <1>5, <2>1 DEF Succeeded
  <2>4. FitsAt(c, held)' /\ CallAt(c, "recorded", held, answer)' /\ FitsAt(c, "scheduled")'
    BY <1>2, <1>3, <2>1, <2>3 DEF FitsAt, CallAt
  <2>5. \/ run'.checkpoint = run.checkpoint
        \/ run'.checkpoint = [exec[h].batch EXCEPT ![c] = "scheduled"]
    BY <1>0, <2>1 DEF StoredRun
  <2>6. Vouched(c)'
    BY <2>1, <2>3 DEF Vouched
  <2> QED
    BY <1>1, <1>3, <2>2, <2>3, <2>4, <2>5, <2>6 DEF CallProceeds
<1>10. CASE Begin(h, c) /\ ~Refused(h, c)
  <2>1. exec[h].pc[c] = "recorded" /\ run' = run /\ effects' = effects
    BY <1>10 DEF Begin, InStage
  <2>2. ASSUME NEW pc \in {"done", "failed"}, NEW state \in {"completed", "cancelled", "scheduled"},
               exec' = Step(h, c, pc, state), ops' = ops,
               pc = "done" \/ state = "completed" => Succeeded(c)
        PROVE  CallProceeds(h, c, pc, state)
    <3>1. CallMoved(h, c, pc, state)
      BY <1>0, <2>2, MovingOn
    <3>2. FitsAt(c, state)' /\ CallAt(c, pc, state, answer)'
      BY <1>2, <1>3, <2>1, <2>2 DEF FitsAt, CallAt, Succeeded
    <3> QED
      BY <1>1, <1>3, <2>1, <2>2, <3>1, <3>2 DEF CallProceeds, Vouched, Succeeded
  <2>3. CASE ops[c].status = "succeeded"
    <3>1. exec' = Step(h, c, "done", "completed") /\ ops' = ops
      BY <1>10, <2>3 DEF Begin
    <3> QED
      BY <2>2, <2>3, <3>1 DEF Succeeded
  <2>4. CASE ops[c].status = "failed"
    <3>1. exec' = Step(h, c, "failed", "cancelled") /\ ops' = ops
      BY <1>10, <2>4 DEF Begin
    <3> QED
      BY <2>2, <3>1
  <2>5. CASE ops[c].status = "unknown"
    <3>1. exec' = Step(h, c, "failed", "scheduled") /\ ops' = ops
      BY <1>10, <2>5 DEF Begin
    <3> QED
      BY <2>2, <3>1
  <2>6. CASE ops[c].status \notin {"succeeded", "failed", "unknown"}
    <3>1. /\ exec' = [Step(h, c, "running", "scheduled") EXCEPT ![h].active = @ \cup {c}]
          /\ ops' = IF ops[c].status = "requested" THEN Settle(c, "running") ELSE ops
      BY <1>10, <2>6 DEF Begin
    <3>2. ops[c].status = "requested"
      BY <1>0, <1>1, <2>1, <2>6 DEF OpsInv, RunInv, CallInv, Operation, OperationStatuses
    <3>3. ops'[c].status = "running" /\ \A d \in Call \ {c} : ops'[d] = ops[d]
      BY <1>4, <1>5, <3>1, <3>2
    <3>4. CallMoved(h, c, "running", "scheduled")
      BY <1>0, <3>1, MovingOn
    <3>5. FitsAt(c, "scheduled")' /\ CallAt(c, "running", "scheduled", answer)'
      BY <1>2, <1>3, <2>1, <3>3 DEF FitsAt, CallAt
    <3>6. Vouched(c)'
      BY <3>3 DEF Vouched, Succeeded
    <3> QED
      BY <1>1, <1>3, <2>1, <3>3, <3>4, <3>5, <3>6 DEF CallProceeds
  <2> QED
    BY <2>3, <2>4, <2>5, <2>6
<1>11. CASE Perform(h, c)
  <2>1. /\ exec[h].pc[c] = "running" /\ exec' = [exec EXCEPT ![h].pc[c] = "performed"]
        /\ run' = run /\ ops' = ops
    BY <1>11 DEF Perform, InStage
  <2>2. CallMoved(h, c, "performed", held)
    BY <1>0, <2>1, MovingOn
  <2>3. FitsAt(c, held)' /\ CallAt(c, "performed", held, answer)'
    BY <1>2, <1>3, <2>1 DEF FitsAt, CallAt, Succeeded
  <2>4. ~Succeeded(c)
    BY <1>2, <2>1 DEF CallAt, Succeeded
  <2> QED
    BY <1>1, <2>1, <2>2, <2>3, <2>4 DEF CallProceeds, Vouched, Succeeded
\* A commit finds the operation it started.
<1>12. ASSUME NEW status \in {"succeeded", "failed", "unknown"}, NEW state, NEW pc \in {"done", "failed"},
              Commit(h, c, status, state, pc), ~Refused(h, c), effects' = effects,
              exec[h].pc[c] \in {"running", "performed"},
              state \in {"completed", "cancelled", "unknown"},
              pc = "done" \/ state = "completed" => status = "succeeded",
              status = "succeeded" => exec[h].pc[c] = "performed"
       PROVE  CallProceeds(h, c, pc, state)
  <2>1. ops[c].status = "running"
    BY <1>2, <1>12 DEF CallAt
  <2>2. /\ exec' = [Step(h, c, pc, state) EXCEPT ![h].active = @ \ {c}]
        /\ ops' = Settle(c, status)
        /\ run' = [run EXCEPT
              !.checkpoint = [exec[h].batch EXCEPT ![c] = state],
              !.status = IF status = "unknown" THEN "needs-resolution" ELSE @]
    BY <1>12, <2>1 DEF Commit, CompletedStatuses
  <2>3. CallMoved(h, c, pc, state)
    BY <1>0, <2>2, MovingOn
  <2>4. run'.checkpoint = [exec[h].batch EXCEPT ![c] = state]
    BY <1>0, <2>2 DEF StoredRun
  <2>5. ops'[c].status = status /\ \A d \in Call \ {c} : ops'[d] = ops[d]
    BY <1>4, <1>5, <2>2
  <2>6. FitsAt(c, state)' /\ CallAt(c, pc, state, answer)'
    BY <1>2, <1>3, <1>12, <2>5 DEF FitsAt, CallAt, Succeeded
  <2>7. Vouched(c)'
    BY <1>2, <1>12, <2>5 DEF Vouched, Succeeded
  <2> QED
    BY <1>1, <1>3, <1>12, <2>3, <2>4, <2>5, <2>6, <2>7 DEF CallProceeds
<1>13. CASE Succeed(h, c)
  <2>1. Commit(h, c, "succeeded", "completed", "done") /\ exec[h].pc[c] = "performed" /\ effects' = effects
    BY <1>13 DEF Succeed, InStage
  <2> QED
    BY <1>7, <1>12, <2>1
<1>14. CASE Reject(h, c)
  <2>1. /\ Commit(h, c, "failed", "cancelled", "failed") /\ exec[h].pc[c] \in {"running", "performed"}
        /\ effects' = effects
    BY <1>14 DEF Reject, InStage
  <2> QED
    BY <1>7, <1>12, <2>1
<1>15. CASE Defect(h, c)
  <2>1. exec[h].pc[c] \in {"running", "performed"} /\ effects' = effects
    BY <1>15 DEF Defect, InStage
  <2>2. CASE c \in Never
    BY <1>7, <1>12, <1>15, <2>1, <2>2 DEF Defect
  <2>3. CASE c \notin Never
    <3>1. exec' = [exec EXCEPT ![h].pc[c] = "failed"] /\ run' = run /\ ops' = ops
      BY <1>15, <2>3 DEF Defect
    <3>2. CallMoved(h, c, "failed", held)
      BY <1>0, <3>1, MovingOn
    <3> QED
      BY <1>6, <2>1, <3>1, <3>2
  <2> QED
    BY <2>2, <2>3
<1>16. Authorize(h, c) \/ Record(h, c) \/ Begin(h, c) => effects' = effects
  BY DEF Authorize, Record, Begin
<1> QED
  BY <1>7, <1>8, <1>9, <1>10, <1>11, <1>13, <1>14, <1>15, <1>16

-----------------------------------------------------------------------------
(* What the steps keep of FollowInv.                                       *)

LEMMA FitsKept ==
    ASSUME Grows, NEW batch, Fits(batch),
           \A c \in Call : run.waits[c] = "absent" /\ batch[c] = "ready" => run'.waits[c] = "absent"
    PROVE  \A c \in Call : FitsAt(c, batch[c])'
BY DEF Grows, Fits, FitsAt, Succeeded

LEMMA StartsKept ==
    ASSUME Grows, StartsInOrder,
           \A c \in Call : ops[c].status = "absent" /\ ops'[c].status # "absent" =>
                /\ \A d \in Before(c) : Succeeded(d)
                /\ c \in Gated => run.waits[c] = "approved"
    PROVE  StartsInOrder'
<1>1. \A c \in Call : Before(c) \subseteq Call
  BY OperationsAssumption DEF Before, Call
<1>2. ASSUME NEW c \in Call, ops'[c].status # "absent"
      PROVE  /\ \A d \in Before(c) : Succeeded(d)
             /\ c \in Gated => run.waits[c] = "approved"
  BY <1>2 DEF StartsInOrder
<1>3. ASSUME NEW c \in Call, ops'[c].status # "absent"
      PROVE  /\ \A d \in Before(c) : ops'[d].status = "succeeded"
             /\ c \in Gated => run'.waits[c] = "approved"
  BY <1>1, <1>2, <1>3 DEF Grows
<1> QED
  BY <1>3 DEF StartsInOrder, Succeeded, Before

LEMMA SuccessKept ==
    ASSUME Grows, SuccessIsWhole,
           run'.status = "succeeded" =>
                run.status = "succeeded" \/ \A c \in Call : Succeeded(c) /\ Vouched(c)
    PROVE  SuccessIsWhole'
BY DEF Grows, SuccessIsWhole, Succeeded, Vouched

\* The execution of h neither starts a batch nor moves a call.
LEMMA MemoryContinues ==
    ASSUME Grows, NEW h \in Hosts, MemoryOf(h),
           exec'[h].phase = "loading" => exec'[h].at = 1,
           exec'[h].phase = "reconciling" => run'.cancellationRequested,
           \A c \in Call : exec'[h].answers[c] \in {"absent", exec[h].answers[c]},
           exec'[h].phase = "batch" => exec[h].phase = "batch" /\ exec'[h].pc = exec[h].pc
    PROVE  MemoryOf(h)'
BY DEF Grows, MemoryOf

LEMMA ResumedNever ==
    ASSUME OpsTypeOK, NEW c \in Call
    PROVE  Resumed(run.checkpoint[c], run.waits[c]) \in {"authorize", "execute", "failed", "done"}
BY DEF OpsTypeOK, Resumed, StoredRun, Batches, BatchStates

\* What an execution has in memory when it resumes the batch.
LEMMA LoadedBatch ==
    ASSUME OpsTypeOK, NEW h \in Hosts, Load(h), exec'[h].phase = "batch"
    PROVE  /\ Fenced(h) /\ ~run.cancellationRequested /\ exec'[h].at = exec[h].at
           /\ exec[h].phase = "loading"
           /\ exec'[h].batch = run.checkpoint /\ exec'[h].answers = run.waits
           /\ exec'[h].pc = [c \in Call |-> Resumed(run.checkpoint[c], run.waits[c])]
           /\ run'.waits = run.waits /\ run'.checkpoint = run.checkpoint
           /\ ops' = Expired(Call)
<1>0. exec \in [Hosts -> Execution] /\ exec[h] \in Execution /\ run \in StoredRun
  BY DEF OpsTypeOK
<1>1. Fenced(h) /\ exec[h].phase = "loading"
  BY <1>0 DEF Load, Leave, Idle
<1>2. ops' = Expired(Call) /\ run' = [run EXCEPT !.status = StatusAfterExpiry(Call)]
  BY <1>1 DEF Load
<1>3. ~run.cancellationRequested
  BY <1>0, <1>1 DEF Load, Execution
<1>4. exec' = [exec EXCEPT ![h] =
          [@ EXCEPT !.phase = IF run'.status = "needs-resolution" THEN "leaving" ELSE "batch",
                    !.batch = run.checkpoint,
                    !.answers = run.waits,
                    !.pc = [c \in Call |-> Resumed(run.checkpoint[c], run.waits[c])]]]
  BY <1>1, <1>3 DEF Load
<1>5. /\ exec'[h].at = exec[h].at /\ exec'[h].batch = run.checkpoint /\ exec'[h].answers = run.waits
      /\ exec'[h].pc = [c \in Call |-> Resumed(run.checkpoint[c], run.waits[c])]
  BY <1>0, <1>4 DEF Execution
<1>6. run'.waits = run.waits /\ run'.checkpoint = run.checkpoint
  BY <1>0, <1>2 DEF StoredRun
<1> QED
  BY <1>1, <1>2, <1>3, <1>5, <1>6

LEMMA OwnMemory ==
    ASSUME OpsInv, MemoryFits, NEW h \in Hosts, HostStep(h) \/ HostFault(h)
    PROVE  MemoryOf(h)'
<1>0. /\ OpsTypeOK /\ exec \in [Hosts -> Execution] /\ exec[h] \in Execution
      /\ effects \in [Call -> Nat] /\ MemoryOf(h)
      /\ {"settling", "completing", "failing", "suspending", "leaving"} \subseteq Phases
  BY DEF OpsInv, OpsTypeOK, Phases, MemoryFits
<1>1. Grows
  BY HostsGrow
\* An execution that ends forgets what it had.
<1>2. ASSUME \/ Leave(h) \/ exec' = [exec EXCEPT ![h] = Idle]
             \/ \E phase \in {"settling", "completing", "failing"} : exec' = To(h, phase)
      PROVE  MemoryOf(h)'
  <2>1. /\ exec'[h].phase \notin {"loading", "reconciling", "batch"}
        /\ \A c \in Call : exec'[h].answers[c] = "absent"
    <3>1. CASE Leave(h)
      BY <1>0, <3>1 DEF Leave, Idle
    <3>2. CASE exec' = [exec EXCEPT ![h] = Idle]
      BY <1>0, <3>2 DEF Idle
    <3>3. ASSUME NEW phase \in {"settling", "completing", "failing"}, exec' = To(h, phase)
          PROVE  /\ exec'[h].phase \notin {"loading", "reconciling", "batch"}
                 /\ \A c \in Call : exec'[h].answers[c] = "absent"
      <4>1. exec'[h] = [Idle EXCEPT !.phase = phase, !.active = exec[h].active]
        BY <1>0, <3>3 DEF To
      <4> QED
        BY <4>1 DEF Idle
    <3> QED
      BY <1>2, <3>1, <3>2, <3>3
  <2> QED
    BY <1>0, <1>1, <2>1, MemoryContinues
<1>3. ASSUME exec'[h].phase \in {exec[h].phase, "suspending", "leaving", "failing"},
             exec'[h].at = exec[h].at \/ exec'[h].phase # "loading",
             exec'[h].answers = exec[h].answers, exec'[h].pc = exec[h].pc
      PROVE  MemoryOf(h)'
  <2>1. /\ exec'[h].phase = "loading" => exec'[h].at = 1
        /\ exec'[h].phase = "reconciling" => run'.cancellationRequested
        /\ exec'[h].phase = "batch" => exec[h].phase = "batch"
    BY <1>0, <1>1, <1>3 DEF MemoryOf, Grows
  <2> QED
    BY <1>0, <1>1, <1>3, <2>1, MemoryContinues
<1>4. CASE Claim(h)
  <2>1. /\ exec'[h].phase = "loading" /\ exec'[h].at = 1
        /\ \A c \in Call : exec'[h].answers[c] = "absent"
    BY <1>0, <1>4 DEF Claim, Idle
  <2> QED
    BY <1>0, <1>1, <2>1, MemoryContinues
<1>5. CASE Load(h)
  <2>1. CASE exec'[h].phase = "batch"
    <3>1. \A c \in Call : exec'[h].pc[c] \notin {"recorded", "running", "performed"}
      BY <1>0, <1>5, <2>1, LoadedBatch, ResumedNever
    <3>2. exec'[h].answers = run'.waits
      BY <1>0, <1>5, <2>1, LoadedBatch
    <3> QED
      BY <2>1, <3>1, <3>2 DEF MemoryOf
  <2>2. CASE exec'[h].phase # "batch"
    <3>1. CASE ~Fenced(h)
      BY <1>2, <1>5, <3>1 DEF Load
    <3>2. CASE Fenced(h) /\ run.cancellationRequested
      <4>1. exec' = [exec EXCEPT ![h] = [@ EXCEPT !.phase = "reconciling", !.active = ToDeliver]]
        BY <1>5, <3>2 DEF Load
      <4>2. exec'[h].answers = exec[h].answers /\ exec'[h].phase = "reconciling"
        BY <1>0, <4>1 DEF Execution
      <4> QED
        BY <1>0, <1>1, <3>2, <4>2, MemoryContinues DEF Grows
    <3>3. CASE Fenced(h) /\ ~run.cancellationRequested
      <4>1. exec' = [exec EXCEPT ![h] =
                [@ EXCEPT !.phase = IF run'.status = "needs-resolution" THEN "leaving" ELSE "batch",
                          !.batch = run.checkpoint,
                          !.answers = run.waits,
                          !.pc = [c \in Call |-> Resumed(run.checkpoint[c], run.waits[c])]]]
            /\ run' = [run EXCEPT !.status = StatusAfterExpiry(Call)]
        BY <1>5, <3>3 DEF Load
      <4>2. exec'[h].phase = "leaving" /\ exec'[h].answers = run.waits
        BY <1>0, <2>2, <4>1 DEF Execution
      <4>3. run'.waits = run.waits
        BY <1>0, <4>1 DEF OpsTypeOK, StoredRun
      <4> QED
        BY <4>2, <4>3 DEF MemoryOf
    <3> QED
      BY <3>1, <3>2, <3>3
  <2> QED
    BY <2>1, <2>2
<1>6. CASE Release(h) \/ Crash(h)
  BY <1>2, <1>6 DEF Release, Crash
<1>7. CASE CallStep(h)
  <2> PICK c \in Call : \/ Quiet(h, c) \/ Recording(h, c) \/ Beginning(h, c)
                        \/ Performing(h, c) \/ Committing(h, c)
    BY <1>0, <1>7, CallSteps
  <2>1. exec[h].phase = "batch"
    BY <1>0, <1>7, CallSteps
  <2>2. exec'[h].phase = "batch" /\ \A d \in Call \ {c} : exec'[h].pc[d] = exec[h].pc[d]
    BY <1>0, <2>1 DEF Quiet, Recording, Beginning, Performing, Committing, Moves, Execution
  <2>3. exec'[h].answers = exec[h].answers
    BY <1>0, <1>7 DEF CallStep, Authorize, Record, Begin, Perform, Succeed, Reject, Defect, Refused,
                      Commit, Step, Execution
  <2>4. /\ exec'[h].pc[c] \in {"recorded", "running", "performed"} => ops'[c].status # "absent"
        /\ exec'[h].pc[c] = "performed" => effects'[c] > 0
    <3>1. CASE Quiet(h, c) \/ Committing(h, c)
      BY <1>0, <3>1 DEF Quiet, Committing, Moves, Execution
    <3>2. CASE Recording(h, c)
      <4>1. \A status : Settle(c, status)[c].status = status
        BY <1>0 DEF Settle, OpsTypeOK, Operation
      <4> QED
        BY <1>0, <3>2, <4>1 DEF Recording, Moves, Execution
    <3>3. CASE Beginning(h, c) \/ Performing(h, c)
      <4>1. exec[h].pc[c] \in {"recorded", "running"} /\ ops[c].status # "absent"
        BY <1>0, <2>1, <3>3 DEF Beginning, Performing, MemoryOf
      <4>2. ops'[c].status # "absent"
        BY <1>1, <4>1 DEF Grows
      <4>3. exec'[h].pc[c] = "performed" => effects'[c] = effects[c] + 1
        BY <1>0, <3>3 DEF Beginning, Performing, Moves, Execution
      <4> QED
        BY <1>0, <4>2, <4>3
    <3> QED
      BY <3>1, <3>2, <3>3
  <2>5. ASSUME NEW d \in Call
        PROVE  /\ exec'[h].pc[d] \in {"recorded", "running", "performed"} => ops'[d].status # "absent"
               /\ exec'[h].pc[d] = "performed" => effects'[d] > 0
    BY <1>0, <1>1, <2>1, <2>2, <2>4 DEF MemoryOf, Grows
  <2>6. \A d \in Call : exec'[h].answers[d] \in {"approved", "denied"} => run'.waits[d] = exec'[h].answers[d]
    BY <1>0, <1>1, <2>3 DEF MemoryOf, Grows
  <2> QED
    BY <2>2, <2>5, <2>6 DEF MemoryOf
<1>8. CASE StageEnd(h)
  <2>1. CASE Leave(h) \/ \E phase \in {"settling", "completing"} : exec' = To(h, phase)
    BY <1>2, <2>1
  <2>2. CASE ~(Leave(h) \/ \E phase \in {"settling", "completing"} : exec' = To(h, phase))
    <3>1. \/ exec' = [exec EXCEPT ![h].phase = "suspending"]
          \/ \E next : exec' = [exec EXCEPT ![h].at = next]
      BY <1>8, <2>2 DEF StageEnd
    <3>2. /\ exec'[h].phase \in {exec[h].phase, "suspending"}
          /\ exec'[h].answers = exec[h].answers /\ exec'[h].pc = exec[h].pc
      BY <1>0, <3>1 DEF Execution
    <3>3. exec[h].phase = "batch"
      BY <1>8 DEF StageEnd
    <3> QED
      BY <1>3, <3>2, <3>3
  <2> QED
    BY <2>1, <2>2
<1>9. CASE Suspend(h) \/ Complete(h) \/ Fail(h) \/ CancelFails(h) \/ Abandon(h)
  BY <1>2, <1>9 DEF Suspend, Complete, Fail, CancelFails, Abandon
<1>10. CASE SettleActive(h)
  <2>1. CASE Leave(h)
    BY <1>2, <2>1
  <2>2. CASE ~Leave(h)
    <3>1. \E phase \in {"leaving", "failing"} :
            exec' = [exec EXCEPT ![h].active = {}, ![h].phase = phase]
      BY <1>10, <2>2 DEF SettleActive
    <3>2. /\ exec'[h].phase \in {"leaving", "failing"}
          /\ exec'[h].answers = exec[h].answers /\ exec'[h].pc = exec[h].pc
      BY <1>0, <3>1 DEF Execution
    <3> QED
      BY <1>3, <3>2
  <2> QED
    BY <2>1, <2>2
<1>11. CASE Interrupt(h) \/ Reconciled(h)
  BY <1>2, <1>11 DEF Interrupt, Reconciled
<1>12. ASSUME NEW c \in Call, Acknowledge(h, c) PROVE MemoryOf(h)'
  <2>1. CASE Leave(h)
    BY <1>2, <2>1
  <2>2. CASE ~Leave(h)
    <3>1. exec' = [exec EXCEPT ![h].active = @ \ {c}]
      BY <1>12, <2>2 DEF Acknowledge
    <3>2. /\ exec'[h].phase = exec[h].phase /\ exec'[h].at = exec[h].at
          /\ exec'[h].answers = exec[h].answers /\ exec'[h].pc = exec[h].pc
      BY <1>0, <3>1 DEF Execution
    <3> QED
      BY <1>3, <3>2
  <2> QED
    BY <2>1, <2>2
<1>13. CASE LeaseLapses(h)
  BY <1>0, <1>3, <1>13 DEF LeaseLapses
<1> QED
  BY <1>4, <1>5, <1>6, <1>7, <1>8, <1>9, <1>10, <1>11, <1>12, <1>13 DEF HostStep, HostFault

LEMMA HostMemory ==
    ASSUME OpsInv, MemoryFits, NEW h \in Hosts, HostStep(h) \/ HostFault(h)
    PROVE  MemoryFits'
<1>1. Grows /\ HostChanges(h)
  BY HostsGrow, HostsChange DEF OpsInv
<1>2. ASSUME NEW k \in Hosts \ {h} PROVE MemoryOf(k)'
  <2>1. exec'[k] = exec[k] /\ MemoryOf(k)
    BY <1>1 DEF HostChanges, MemoryFits
  <2> QED
    BY <1>1, <2>1 DEF MemoryOf, Grows
<1> QED
  BY <1>2, OwnMemory DEF MemoryFits

\* The execution that resumes the batch.
LEMMA LoadFollows ==
    ASSUME OpsInv, FollowInv, NEW h \in Hosts, Load(h), exec'[h].phase = "batch"
    PROVE  Follows(h)'
<1>0. OpsTypeOK /\ Grows
  BY HostsGrow DEF OpsInv, FollowInv, HostStep
<1>1. /\ Fenced(h) /\ ~run.cancellationRequested /\ exec'[h].at = 1
      /\ exec'[h].batch = run.checkpoint /\ exec'[h].answers = run.waits
      /\ exec'[h].pc = [c \in Call |-> Resumed(run.checkpoint[c], run.waits[c])]
      /\ run'.waits = run.waits
  BY <1>0, LoadedBatch DEF FollowInv, MemoryFits, MemoryOf
<1>2. Fits(run.checkpoint)
  BY <1>1 DEF FollowInv
<1>3. 1 \in Call /\ 1..(1 - 1) = {}
  BY OperationsAssumption DEF Call
<1>4. ASSUME NEW c \in Call
      PROVE  /\ CallAt(c, exec[h].pc[c], exec[h].batch[c], exec[h].answers[c])'
             /\ FitsAt(c, exec[h].batch[c])'
  <2>1. /\ exec'[h].pc[c] = Resumed(run.checkpoint[c], run.waits[c])
        /\ exec'[h].batch[c] = run.checkpoint[c] /\ exec'[h].answers[c] = run.waits[c]
    BY <1>1
  <2>2. /\ run.checkpoint[c] \in BatchStates
        /\ FitsAt(c, run.checkpoint[c])
        /\ ops[c].status = "succeeded" => ops'[c].status = "succeeded"
    BY <1>0, <1>2 DEF OpsTypeOK, StoredRun, Batches, Fits, Grows, Succeeded
  <2> QED
    BY <1>1, <2>1, <2>2 DEF CallAt, FitsAt, Resumed, BatchStates, Succeeded
<1> QED
  BY <1>1, <1>3, <1>4 DEF Follows, Fits

\* The execution at the end of a stage.
LEMMA StageEndFollows ==
    ASSUME OpsInv, FollowInv, NEW h \in Hosts, StageEnd(h), Fenced(h), ~run.cancellationRequested
    PROVE  Follows(h)'
<1>0. /\ OpsTypeOK /\ exec \in [Hosts -> Execution] /\ exec[h] \in Execution /\ run \in StoredRun
  BY DEF OpsInv, OpsTypeOK
<1>1. exec[h].phase = "batch" /\ Follows(h) /\ ops' = ops
  BY DEF StageEnd, FollowInv
<1>2. CASE Leave(h) \/ exec' = To(h, "settling")
  <2>1. exec'[h].phase \in {"leaving", "settling"}
    BY <1>0, <1>2 DEF Leave, To, Idle
  <2> QED
    BY <2>1 DEF Follows
<1>3. CASE ~(Leave(h) \/ exec' = To(h, "settling"))
  <2>1. /\ run' = [run EXCEPT !.checkpoint = exec[h].batch]
        /\ \A c \in Stage(exec[h].at) : exec[h].pc[c] = "done"
        /\ \/ exec' = [exec EXCEPT ![h].phase = "suspending"]
           \/ Unanswered(h) = {} /\ Calls \in Stage(exec[h].at) /\ exec' = To(h, "completing")
           \/ /\ Unanswered(h) = {}
              /\ \E next \in Call \ Stage(exec[h].at) :
                    next - 1 \in Stage(exec[h].at) /\ exec' = [exec EXCEPT ![h].at = next]
    BY <1>3 DEF StageEnd
  <2>2. run'.checkpoint = exec[h].batch /\ run'.waits = run.waits
    BY <1>0, <2>1 DEF StoredRun
  <2>3. exec[h].at \in Call /\ \A d \in 1..(exec[h].at - 1) : ~SameStage(d, exec[h].at) /\ Succeeded(d)
    BY <1>1 DEF Follows
  <2>4. Unanswered(h) = {} => \A c \in Stage(exec[h].at) : Succeeded(c)
    BY <1>1, <2>1 DEF Follows, CallAt, Unanswered, Stage
  <2>5. CASE exec' = [exec EXCEPT ![h].phase = "suspending"]
    <3>1. exec'[h].phase = "suspending" /\ exec'[h].batch = exec[h].batch
      BY <1>0, <2>5 DEF Execution
    <3> QED
      BY <2>2, <3>1 DEF Follows
  <2>6. CASE Unanswered(h) = {} /\ Calls \in Stage(exec[h].at) /\ exec' = To(h, "completing")
    <3>1. exec'[h].phase = "completing"
      BY <1>0, <2>6 DEF To, Idle
    <3>2. \A c \in Call : Succeeded(c)
      BY <2>3, <2>4, <2>6, LastStage
    <3> QED
      BY <1>1, <3>1, <3>2 DEF Follows, Succeeded
  <2>7. ASSUME NEW next \in Call \ Stage(exec[h].at), next - 1 \in Stage(exec[h].at),
               Unanswered(h) = {}, exec' = [exec EXCEPT ![h].at = next]
        PROVE  Follows(h)'
    <3>1. /\ exec'[h].phase = "batch" /\ exec'[h].at = next /\ exec'[h].pc = exec[h].pc
          /\ exec'[h].batch = exec[h].batch /\ exec'[h].answers = exec[h].answers
      BY <1>0, <1>1, <2>7 DEF Execution
    <3>2. \A d \in 1..(next - 1) : /\ ~SameStage(d, next)
                                   /\ d \in 1..(exec[h].at - 1) \/ d \in Stage(exec[h].at)
      BY <2>3, <2>7, NextStage
    <3>3. \A d \in 1..(next - 1) : ~SameStage(d, next) /\ ops[d].status = "succeeded"
      BY <2>3, <2>4, <2>7, <3>2 DEF Succeeded
    <3>4. \A c \in Call : /\ CallAt(c, exec[h].pc[c], exec[h].batch[c], exec[h].answers[c])
                          /\ FitsAt(c, exec[h].batch[c])
      BY <1>1 DEF Follows, Fits
    <3>5. \A c \in Call : /\ CallAt(c, exec[h].pc[c], exec[h].batch[c], exec[h].answers[c])'
                          /\ FitsAt(c, exec[h].batch[c])'
      BY <1>1, <2>2, <3>1, <3>4 DEF CallAt, FitsAt, Succeeded
    <3> QED
      BY <1>1, <3>1, <3>3, <3>5, <2>7 DEF Follows, Fits, Succeeded, SameStage
  <2> QED
    BY <2>1, <2>5, <2>6, <2>7
<1> QED
  BY <1>2, <1>3

\* The execution in which a call goes on.
LEMMA CallFollows ==
    ASSUME OpsInv, FollowInv, NEW h \in Hosts, Fenced(h), ~run.cancellationRequested, CallStep(h)
    PROVE  Follows(h)' /\ Fits(run.checkpoint)' /\ \A c \in Call : Vouched(c)'
<1>0. /\ OpsTypeOK /\ exec \in [Hosts -> Execution] /\ exec[h] \in Execution /\ run \in StoredRun
      /\ exec[h].phase = "batch" /\ Grows /\ HostChanges(h) /\ run'.waits = run.waits
  BY CallSteps, HostsGrow, CallChanges DEF OpsInv, OpsTypeOK, FollowInv, HostStep
<1>1. Follows(h) /\ Fits(run.checkpoint) /\ \A c \in Call : Vouched(c)
  BY DEF FollowInv
<1> PICK c \in Call : \E pc, state : CallProceeds(h, c, pc, state)
  BY <1>1, CallsProceed DEF FollowInv
<1> PICK pc, state : CallProceeds(h, c, pc, state)
  OBVIOUS
<1>2. /\ CallMoved(h, c, pc, state) /\ FitsAt(c, state)'
      /\ CallAt(c, pc, state, exec[h].answers[c])'
      /\ \A d \in Call \ {c} : ops'[d] = ops[d]
      /\ Vouched(c)'
  BY DEF CallProceeds
<1>3. /\ exec'[h].phase = "batch" /\ exec'[h].at = exec[h].at /\ exec'[h].answers = exec[h].answers
      /\ exec'[h].pc[c] = pc /\ exec'[h].batch[c] = state
      /\ \A d \in Call \ {c} : exec'[h].pc[d] = exec[h].pc[d] /\ exec'[h].batch[d] = exec[h].batch[d]
  BY <1>0, <1>2 DEF CallMoved, Execution, Batches
<1>4. ASSUME NEW d \in Call \ {c}
      PROVE  /\ CallAt(d, exec[h].pc[d], exec[h].batch[d], exec[h].answers[d])'
             /\ FitsAt(d, exec[h].batch[d])' /\ Vouched(d)'
  <2>1. /\ CallAt(d, exec[h].pc[d], exec[h].batch[d], exec[h].answers[d])
        /\ FitsAt(d, exec[h].batch[d]) /\ Vouched(d)
    BY <1>0, <1>1 DEF Follows, Fits
  <2>2. /\ ops'[d] = ops[d] /\ exec'[h].pc[d] = exec[h].pc[d] /\ exec'[h].batch[d] = exec[h].batch[d]
        /\ effects[d] > 0 => effects'[d] > 0
    BY <1>0, <1>2, <1>3 DEF Grows
  <2> QED
    BY <1>0, <1>3, <2>1, <2>2 DEF CallAt, FitsAt, Vouched, Succeeded
<1>5. /\ CallAt(c, exec[h].pc[c], exec[h].batch[c], exec[h].answers[c])'
      /\ FitsAt(c, exec[h].batch[c])'
  BY <1>2, <1>3
<1>6. \A d \in Call : /\ CallAt(d, exec[h].pc[d], exec[h].batch[d], exec[h].answers[d])'
                      /\ FitsAt(d, exec[h].batch[d])' /\ Vouched(d)'
  BY <1>2, <1>4, <1>5
<1>7. /\ exec[h].at \in Call
      /\ \A d \in 1..(exec[h].at - 1) : ~SameStage(d, exec[h].at) /\ ops'[d].status = "succeeded"
  <2>1. /\ exec[h].at \in Call
        /\ \A d \in 1..(exec[h].at - 1) : ~SameStage(d, exec[h].at) /\ Succeeded(d)
    BY <1>0, <1>1 DEF Follows
  <2>2. 1..(exec[h].at - 1) \subseteq Call
    BY <2>1, OperationsAssumption DEF Call
  <2> QED
    BY <1>0, <2>1, <2>2 DEF Grows
<1>8. Follows(h)'
  BY <1>3, <1>6, <1>7 DEF Follows, Fits, Succeeded, SameStage
<1>9. Fits(run.checkpoint)'
  <2>1. CASE run'.checkpoint = run.checkpoint
    <3>1. \A d \in Call : FitsAt(d, run.checkpoint[d])
      BY <1>1 DEF Fits
    <3>2. \A d \in Call : FitsAt(d, run.checkpoint[d])'
      BY <1>0, <2>1, <3>1 DEF FitsAt, Grows, Succeeded
    <3> QED
      BY <3>2 DEF Fits
  <2>2. ASSUME NEW saved, run'.checkpoint = [exec[h].batch EXCEPT ![c] = saved], FitsAt(c, saved)'
        PROVE  Fits(run.checkpoint)'
    <3>1. run'.checkpoint[c] = saved /\ \A d \in Call \ {c} : run'.checkpoint[d] = exec'[h].batch[d]
      BY <1>0, <1>3, <2>2 DEF Execution, Batches
    <3>2. \A d \in Call : FitsAt(d, run.checkpoint[d])'
      BY <1>6, <2>2, <3>1
    <3> QED
      BY <3>2 DEF Fits
  <2> QED
    BY <2>1, <2>2 DEF CallProceeds
<1> QED
  BY <1>6, <1>8, <1>9

\* The steps after which the execution that has the claim has a batch in memory.
HasBatch(h) == exec[h].phase \in {"batch", "suspending", "completing"}
BatchStep(h) == \/ Load(h) /\ exec'[h].phase = "batch"
                \/ Fenced(h) /\ (CallStep(h) \/ StageEnd(h))

LEMMA OwnPhase ==
    ASSUME OpsInv, NEW h \in Hosts, HostStep(h) \/ HostFault(h), run'.owner = h
    PROVE  HasBatch(h)' => BatchStep(h)
<1>0. /\ OpsTypeOK /\ exec \in [Hosts -> Execution] /\ exec[h] \in Execution /\ run \in StoredRun
      /\ h # NoHost
  BY OperationsAssumption DEF OpsInv, OpsTypeOK
<1>1. exec'[h].phase \notin {"batch", "suspending", "completing"} => ~HasBatch(h)'
  BY DEF HasBatch
<1>2. CASE Claim(h)
  <2>1. exec'[h].phase = "loading"
    BY <1>0, <1>2 DEF Claim
  <2> QED
    BY <1>1, <2>1
<1>3. CASE Load(h)
  <2>1. CASE exec'[h].phase = "batch"
    BY <1>3, <2>1 DEF BatchStep
  <2>2. CASE exec'[h].phase # "batch"
    <3>1. CASE ~Fenced(h)
      <4>1. Leave(h)
        BY <1>3, <3>1 DEF Load
      <4>2. exec'[h].phase = "leaving"
        BY <1>0, <4>1 DEF Leave
      <4> QED
        BY <1>1, <4>2
    <3>2. CASE Fenced(h)
      <4>1. CASE run.cancellationRequested
        <5>1. exec' = [exec EXCEPT ![h] = [@ EXCEPT !.phase = "reconciling", !.active = ToDeliver]]
          BY <1>3, <3>2, <4>1 DEF Load
        <5> QED
          BY <1>0, <1>1, <5>1 DEF Execution
      <4>2. CASE ~run.cancellationRequested
        <5>1. exec' = [exec EXCEPT ![h] =
                [@ EXCEPT !.phase = IF run'.status = "needs-resolution" THEN "leaving" ELSE "batch",
                          !.batch = run.checkpoint,
                          !.answers = run.waits,
                          !.pc = [c \in Call |-> Resumed(run.checkpoint[c], run.waits[c])]]]
          BY <1>3, <3>2, <4>2 DEF Load
        <5>2. exec'[h].phase = "leaving"
          BY <1>0, <2>2, <5>1 DEF Execution
        <5> QED
          BY <1>1, <5>2
      <4> QED
        BY <4>1, <4>2
    <3> QED
      BY <3>1, <3>2
  <2> QED
    BY <2>1, <2>2
<1>4. CASE CallStep(h)
  <2>1. Fenced(h)
    BY <1>0, <1>4, CallSteps DEF KeepsRun, Fenced
  <2> QED
    BY <1>4, <2>1 DEF BatchStep
<1>5. CASE StageEnd(h)
  <2>1. Fenced(h)
    BY <1>0, <1>5 DEF StageEnd, StoredRun, Fenced
  <2> QED
    BY <1>5, <2>1 DEF BatchStep
<1>6. ASSUME Leave(h) \/ \E phase \in {"settling", "failing"} : exec' = To(h, phase)
      PROVE  ~HasBatch(h)'
  <2>1. CASE Leave(h)
    <3>1. exec'[h].phase = "leaving"
      BY <1>0, <2>1 DEF Leave
    <3> QED
      BY <1>1, <3>1
  <2>2. ASSUME NEW phase \in {"settling", "failing"}, exec' = To(h, phase)
        PROVE  ~HasBatch(h)'
    <3>1. exec'[h] = [Idle EXCEPT !.phase = phase, !.active = exec[h].active]
      BY <1>0, <2>2 DEF To
    <3>2. exec'[h].phase = phase
      BY <3>1 DEF Idle
    <3> QED
      BY <1>1, <3>2
  <2> QED
    BY <1>6, <2>1, <2>2
<1>7. CASE \/ Suspend(h) \/ Complete(h) \/ Fail(h) \/ CancelFails(h)
           \/ Abandon(h) \/ Interrupt(h) \/ Reconciled(h)
  BY <1>6, <1>7 DEF Suspend, Complete, Fail, CancelFails, Abandon, Interrupt, Reconciled
<1>8. CASE Release(h) \/ Crash(h)
  <2>1. exec'[h].phase = "idle"
    BY <1>0, <1>8 DEF Release, Crash, Idle
  <2> QED
    BY <1>1, <2>1
<1>9. CASE SettleActive(h)
  <2>1. CASE ~Leave(h)
    <3>1. \E phase \in {"leaving", "failing"} :
            exec' = [exec EXCEPT ![h].active = {}, ![h].phase = phase]
      BY <1>9, <2>1 DEF SettleActive
    <3>2. exec'[h].phase \in {"leaving", "failing"}
      BY <1>0, <3>1 DEF Execution
    <3> QED
      BY <1>1, <3>2
  <2> QED
    BY <1>6, <2>1
<1>10. ASSUME NEW c \in Call, Acknowledge(h, c) PROVE ~HasBatch(h)'
  <2>1. CASE ~Leave(h)
    <3>1. exec' = [exec EXCEPT ![h].active = @ \ {c}] /\ exec[h].phase = "reconciling"
      BY <1>10, <2>1 DEF Acknowledge
    <3>2. exec'[h].phase = "reconciling"
      BY <1>0, <3>1 DEF Execution
    <3> QED
      BY <1>1, <3>2
  <2> QED
    BY <1>6, <2>1
<1>11. CASE LeaseLapses(h)
  BY <1>0, <1>11 DEF LeaseLapses, StoredRun
<1> QED
  BY <1>2, <1>3, <1>4, <1>5, <1>7, <1>8, <1>9, <1>10, <1>11 DEF HostStep, HostFault

LEMMA OwnWork ==
    ASSUME OpsInv, FollowInv, NEW h \in Hosts, HostStep(h) \/ HostFault(h),
           run'.owner = h, ~run.cancellationRequested
    PROVE  Follows(h)'
<1>1. CASE HasBatch(h)'
  BY <1>1, OwnPhase, LoadFollows, CallFollows, StageEndFollows DEF BatchStep
<1>2. CASE ~HasBatch(h)'
  BY <1>2 DEF HasBatch, Follows
<1> QED
  BY <1>1, <1>2

\* When a checkpoint is saved.
LEMMA SavedWhen ==
    ASSUME OpsInv, MemoryFits, NEW h \in Hosts, HostStep(h) \/ HostFault(h)
    PROVE  \/ run'.checkpoint = run.checkpoint
           \/ CallStep(h) /\ Fenced(h)
           \/ StageEnd(h) /\ Fenced(h) /\ run'.checkpoint = exec[h].batch
<1>0. OpsTypeOK /\ run \in StoredRun /\ HostChanges(h)
  BY HostsChange DEF OpsInv, OpsTypeOK
<1>1. CASE CallStep(h) /\ ~Fenced(h)
  <2>1. run'.owner # h
    BY <1>0, <1>1, CallSteps DEF KeepsRun, Fenced
  <2> QED
    BY <1>0, <1>1, <2>1 DEF HostChanges
<1>2. CASE StageEnd(h)
  BY <1>0, <1>2 DEF StageEnd, StoredRun, Accepts
<1>3. CASE ~CallStep(h) /\ ~StageEnd(h)
  BY <1>0, <1>3 DEF HostStep, HostFault, Claim, Load, Release, Suspend, Complete, SettleActive, Fail,
        Interrupt, Reconciled, Acknowledge, Abandon, CancelFails, Crash, LeaseLapses, Finished,
        StoredRun
<1> QED
  BY <1>1, <1>2, <1>3

\* What a host saves, and the outcomes it records.
LEMMA SavedFits ==
    ASSUME OpsInv, FollowInv, NEW h \in Hosts, HostStep(h) \/ HostFault(h), ~run.cancellationRequested
    PROVE  Fits(run.checkpoint)' /\ \A c \in Call : Vouched(c)'
<1>0. /\ OpsTypeOK /\ exec \in [Hosts -> Execution] /\ run \in StoredRun /\ ops \in [Call -> Operation]
      /\ Grows /\ HostChanges(h)
      /\ Fits(run.checkpoint) /\ \A c \in Call : Vouched(c)
  BY HostsGrow, HostsChange DEF OpsInv, OpsTypeOK, FollowInv
<1>1. CASE CallStep(h) /\ Fenced(h)
  BY <1>1, CallFollows
<1>2. CASE ~(CallStep(h) /\ Fenced(h))
  <2>1. run'.checkpoint = run.checkpoint \/ (StageEnd(h) /\ run'.checkpoint = exec[h].batch /\ Fenced(h))
    BY <1>2, SavedWhen DEF FollowInv
  <2>2. ASSUME NEW c \in Call, ops'[c].status = "succeeded" PROVE ops[c].status = "succeeded"
    <3>1. CASE CallStep(h)
      BY <1>0, <1>2, <3>1, <2>2, CallSteps DEF HostChanges, KeepsRun, Fenced
    <3>2. CASE Load(h) \/ SettleActive(h) \/ Abandon(h)
      <4>1. ops' = ops \/ \E S \in SUBSET Call : ops' = Expired(S)
        <5>1. exec[h].active \in SUBSET Call
          BY <1>0, BatchField
        <5> QED
          BY <3>2, <5>1 DEF Load, SettleActive, Abandon
      <4>2. \A S \in SUBSET Call : Expired(S)[c].status = "succeeded" => ops[c].status = "succeeded"
        BY <1>0 DEF Expired, Operation
      <4> QED
        BY <2>2, <4>1, <4>2
    <3>3. ASSUME NEW d \in Call, Acknowledge(h, d) PROVE FALSE
      BY <3>3 DEF Acknowledge, FollowInv, MemoryFits, MemoryOf
    <3>4. CASE ~CallStep(h) /\ ~Load(h) /\ ~SettleActive(h) /\ ~Abandon(h)
      <4>1. ops' = ops
        BY <3>3, <3>4 DEF HostStep, HostFault, Claim, Release, StageEnd, Suspend, Complete, Fail,
            Interrupt, Reconciled, CancelFails, Crash, LeaseLapses
      <4> QED
        BY <2>2, <4>1
    <3> QED
      BY <3>1, <3>2, <3>4
  <2>3. \A c \in Call : Vouched(c)'
    <3> SUFFICES ASSUME NEW c \in Call, ops'[c].status = "succeeded"
                 PROVE  effects'[c] > 0 \/ ops'[c].resolution = "Succeeded"
      BY DEF Vouched, Succeeded
    <3>1. ops[c].status = "succeeded" /\ Vouched(c)
      BY <1>0, <2>2
    <3> QED
      BY <1>0, <3>1 DEF Vouched, Succeeded, Grows
  <2>4. CASE run'.checkpoint = run.checkpoint
    <3> PICK batch : batch = run.checkpoint
      OBVIOUS
    <3>1. ASSUME NEW c \in Call, run.waits[c] = "absent", batch[c] = "ready"
          PROVE  run'.waits[c] = "absent"
      <4>1. run'.waits[c] # "absent" => /\ exec[h].phase = "suspending" /\ Fenced(h)
                                        /\ exec[h].batch[c] = "waiting"
        BY <1>0, <3>1 DEF HostChanges, Unanswered
      <4>2. exec[h].phase = "suspending" /\ Fenced(h) => run.checkpoint = exec[h].batch
        BY DEF FollowInv, Follows
      <4> QED
        BY <3>1, <4>1, <4>2
    <3>2. \A c \in Call : FitsAt(c, batch[c])'
      BY <1>0, <3>1, FitsKept
    <3>3. \A c \in Call : FitsAt(c, run.checkpoint[c])'
      BY <2>4, <3>2
    <3> QED
      BY <2>3, <3>3 DEF Fits
  <2>5. CASE StageEnd(h) /\ run'.checkpoint = exec[h].batch /\ Fenced(h)
    <3>1. Fits(exec[h].batch)
      BY <2>5 DEF FollowInv, Follows, StageEnd
    <3>2. run'.waits = run.waits /\ ops' = ops
      BY <1>0, <2>5 DEF StageEnd, StoredRun
    <3> QED
      BY <2>3, <2>5, <3>1, <3>2 DEF Fits, FitsAt, Succeeded
  <2> QED
    BY <2>1, <2>4, <2>5
<1> QED
  BY <1>1, <1>2

LEMMA HostsFollow ==
    ASSUME OpsInv, FollowInv, NEW h \in Hosts, HostStep(h) \/ HostFault(h)
    PROVE  FollowInv'
<1>0. /\ OpsTypeOK /\ StartsInOrder /\ SuccessIsWhole /\ MemoryFits /\ Grows /\ HostChanges(h)
      /\ h # NoHost
  BY HostsGrow, HostsChange, OperationsAssumption DEF OpsInv, FollowInv
<1>1. StartsInOrder'
  <2>1. ASSUME NEW c \in Call, ops[c].status = "absent", ops'[c].status # "absent"
        PROVE  /\ \A d \in Before(c) : Succeeded(d)
               /\ c \in Gated => run.waits[c] = "approved"
    <3>1. /\ Fenced(h) /\ ~run.cancellationRequested
          /\ exec[h].phase = "batch" /\ exec[h].pc[c] = "execute" /\ c \in Stage(exec[h].at)
      BY <1>0, <2>1 DEF HostChanges
    <3>2. /\ exec[h].at \in Call
          /\ \A d \in 1..(exec[h].at - 1) : Succeeded(d)
          /\ CallAt(c, exec[h].pc[c], exec[h].batch[c], exec[h].answers[c])
      BY <3>1 DEF FollowInv, Follows
    <3>3. \A d \in Before(c) : Succeeded(d)
      BY <3>1, <3>2, StagesInOrder
    <3> QED
      BY <3>1, <3>2, <3>3 DEF CallAt
  <2> QED
    BY <1>0, <2>1, StartsKept
<1>2. SuccessIsWhole'
  <2>1. ASSUME run'.status = "succeeded", run.status # "succeeded"
        PROVE  \A c \in Call : Succeeded(c) /\ Vouched(c)
    <3>1. exec[h].phase = "completing" /\ Fenced(h) /\ ~run.cancellationRequested
      BY <1>0, <2>1 DEF HostChanges
    <3> QED
      BY <3>1 DEF FollowInv, Follows
  <2> QED
    BY <1>0, <2>1, SuccessKept
<1>3. MemoryFits'
  BY <1>0, HostMemory
<1>4. ASSUME ~run'.cancellationRequested
      PROVE  /\ Fits(run.checkpoint)' /\ \A c \in Call : Vouched(c)'
             /\ \A k \in Hosts : run'.owner = k => Follows(k)'
  <2>1. ~run.cancellationRequested
    BY <1>0, <1>4 DEF HostChanges
  <2>2. Fits(run.checkpoint)' /\ \A c \in Call : Vouched(c)'
    BY <2>1, SavedFits
  <2>3. ASSUME NEW k \in Hosts \ {h}, run'.owner = k PROVE Follows(k)'
    <3>1. k # NoHost /\ exec'[k] = exec[k] /\ run.owner = k
      BY <1>0, <2>3, OperationsAssumption DEF HostChanges
    <3>2. run' = run /\ ops' = ops
      BY <1>0, <2>3, <3>1 DEF HostChanges, Fenced
    <3>3. Follows(k)
      BY <2>1, <3>1 DEF FollowInv, Fenced
    <3> QED
      BY <3>1, <3>2, <3>3 DEF Follows, Fits, FitsAt, CallAt, Succeeded, SameStage
  <2> QED
    BY <2>1, <2>2, <2>3, OwnWork
<1> QED
  BY <1>1, <1>2, <1>3, <1>4 DEF FollowInv, Fenced

LEMMA CallersGrow ==
    ASSUME OpsInv, OutsideStep
    PROVE  /\ Grows /\ exec' = exec /\ effects' = effects
           /\ \A c \in Call : ops[c].status = "absent" => ops'[c].status = "absent"
<1>0. /\ OpsTypeOK /\ run \in StoredRun /\ ops \in [Call -> Operation]
  BY DEF OpsInv, OpsTypeOK
<1>1. /\ exec' = exec /\ effects' = effects
      /\ \A c \in Call : Succeeded(c) => ops'[c].status = "succeeded"
  BY CallersKeepOutcomes DEF OutsideStep, Cancel, Respond, Resolve, OperatorRetry, Succeeded
\* The operations and waits change as follows.
<1> DEFINE Rest == /\ \A c \in Call : Succeeded(c) => ops'[c].resolution = ops[c].resolution
                   /\ \A c \in Call : run.waits[c] \in {"approved", "denied"} => run'.waits[c] = run.waits[c]
                   /\ \A c \in Call : ops[c].status = "absent" <=> ops'[c].status = "absent"
                   /\ run.cancellationRequested => run'.cancellationRequested
<1>2. ASSUME NEW r \in StoredRun, NEW o \in [Call -> Operation]
      PROVE  /\ \A c \in Call : r.waits[c] \in {"approved", "denied"} =>
                    AfterCancel(r, o).waits[c] = r.waits[c]
             /\ AfterCancel(r, o).cancellationRequested
             /\ \A c \in Call : /\ o[c].status = "absent" <=> Marked(o)[c].status = "absent"
                                /\ Marked(o)[c].resolution = o[c].resolution
  <2>1. AfterCancel(r, o).waits = CancelWaits(r.waits)
    BY DEF AfterCancel, StoredRun
  <2>2. \A c \in Call : CancelWaits(r.waits)[c] = IF r.waits[c] = "open" THEN "cancelled" ELSE r.waits[c]
    BY DEF CancelWaits
  <2> QED
    BY <2>1, <2>2, Cancelling
<1>3. CASE Cancel
  <2>1. ops' = Marked(ops) /\ run' = AfterCancel(run, ops)
    BY <1>3 DEF Cancel
  <2>2. Rest
    BY <1>0, <1>2, <2>1
  <2> QED
    BY <1>1, <2>2 DEF Grows
<1>4. ASSUME NEW c \in Call, Respond(c) PROVE Rest
  <2>1. /\ ops' = ops /\ run.waits[c] = "open" /\ run'.cancellationRequested = run.cancellationRequested
        /\ \A d \in Call \ {c} : run'.waits[d] = run.waits[d]
    BY <1>0, <1>4 DEF Respond, StoredRun
  <2> QED
    BY <2>1
<1>5. ASSUME NEW c \in Call, Resolve(c) PROVE Rest
  <2> PICK o \in [Call -> Operation], r \in StoredRun :
          /\ Resolved(c, o, r)
          /\ \/ run.cancellationRequested /\ ops' = Marked(o) /\ run' = AfterCancel(r, o)
             \/ ops' = o /\ run' = r
    BY <1>0, <1>5, ResolutionTyped
  <2>1. ops[c].status = "unknown"
    BY <1>5 DEF Resolve
  <2>2. /\ \A d \in Call : Succeeded(d) => o[d].resolution = ops[d].resolution
        /\ \A d \in Call : ops[d].status = "absent" <=> o[d].status = "absent"
        /\ r.waits = run.waits /\ r.cancellationRequested = run.cancellationRequested
    BY <2>1 DEF Resolved, Succeeded
  <2>3. CASE ops' = o /\ run' = r
    BY <2>2, <2>3
  <2>4. CASE ops' = Marked(o) /\ run' = AfterCancel(r, o)
    BY <1>2, <2>2, <2>4
  <2> QED
    BY <2>3, <2>4
<1>6. ASSUME NEW c \in Call, OperatorRetry(c) PROVE Rest
  <2>1. /\ run'.waits = run.waits /\ run'.cancellationRequested = run.cancellationRequested
        /\ ops[c].status = "running" /\ ops'[c].status = "requested"
        /\ \A d \in Call \ {c} : ops'[d] = ops[d]
    BY <1>0, <1>6 DEF OperatorRetry, StoredRun, Settle, Operation
  <2> QED
    BY <2>1 DEF Succeeded
<1>7. Rest
  BY <1>0, <1>2, <1>3, <1>4, <1>5, <1>6 DEF OutsideStep, Cancel
<1> QED
  BY <1>1, <1>7 DEF Grows

LEMMA CallersFollow ==
    ASSUME OpsInv, FollowInv, OutsideStep
    PROVE  FollowInv'
<1>0. /\ OpsTypeOK /\ run \in StoredRun /\ ops \in [Call -> Operation] /\ exec \in [Hosts -> Execution]
      /\ Grows /\ exec' = exec /\ effects' = effects
      /\ \A c \in Call : ops[c].status = "absent" => ops'[c].status = "absent"
  BY CallersGrow DEF OpsInv, OpsTypeOK
<1>1. StartsInOrder'
  BY <1>0, StartsKept DEF FollowInv
<1>2. MemoryFits'
  <2>1. ASSUME NEW h \in Hosts PROVE MemoryOf(h)'
    <3>1. MemoryOf(h)
      BY DEF FollowInv, MemoryFits
    <3> QED
      BY <1>0, <3>1 DEF MemoryOf, Grows
  <2> QED
    BY <2>1 DEF MemoryFits
<1>3. SuccessIsWhole'
  <2>1. run'.status # "succeeded" \/ run.status = "succeeded"
    <3>1. ASSUME NEW c \in Call, Respond(c) \/ Resolve(c) \/ OperatorRetry(c)
          PROVE  run'.status # "succeeded"
      <4>1. CASE Respond(c) \/ OperatorRetry(c)
        BY <1>0, <4>1 DEF Respond, OperatorRetry, StoredRun
      <4>2. CASE Resolve(c)
        BY <1>0, <4>2, ResolutionTyped, Cancelling DEF Resolved
      <4> QED
        BY <3>1, <4>1, <4>2
    <3>2. CASE Cancel
      BY <1>0, <3>2, Cancelling DEF Cancel
    <3> QED
      BY <3>1, <3>2 DEF OutsideStep
  <2> QED
    BY <1>0, <2>1, SuccessKept DEF FollowInv
<1> DEFINE Rest == /\ Fits(run.checkpoint)' /\ \A c \in Call : Vouched(c)'
                   /\ \A k \in Hosts : run'.owner = k => Follows(k)'
<1>4. CASE Cancel
  <2>1. run'.cancellationRequested
    BY <1>0, <1>4, Cancelling DEF Cancel
  <2> QED
    BY <1>1, <1>2, <1>3, <2>1 DEF FollowInv, Fenced
<1>5. ASSUME NEW c \in Call, Respond(c), ~run.cancellationRequested PROVE Rest
  <2>1. /\ ops' = ops /\ run.waits[c] = "open" /\ run'.waits[c] \in {"approved", "denied"}
        /\ run'.owner = run.owner /\ run'.checkpoint = run.checkpoint
        /\ \A d \in Call \ {c} : run'.waits[d] = run.waits[d]
    BY <1>0, <1>5 DEF Respond, StoredRun
  <2>4. Fits(run.checkpoint)' /\ \A d \in Call : Vouched(d)'
    <3>1. \A d \in Call : FitsAt(d, run.checkpoint[d]) /\ Vouched(d)
      BY <1>5 DEF FollowInv, Fits
    <3>2. \A d \in Call : FitsAt(d, run.checkpoint[d])' /\ Vouched(d)'
      BY <1>0, <2>1, <3>1 DEF FitsAt, Vouched, Succeeded
    <3> QED
      BY <3>2 DEF Fits
  <2>5. ASSUME NEW k \in Hosts, run'.owner = k PROVE Follows(k)'
    <3>1. Follows(k)
      BY <1>5, <2>1, <2>5 DEF FollowInv, Fenced
    <3>2. exec[k].phase = "batch" =>
            \A d \in Call : /\ CallAt(d, exec[k].pc[d], exec[k].batch[d], exec[k].answers[d])'
                            /\ FitsAt(d, exec[k].batch[d])'
      BY <1>0, <2>1, <3>1 DEF Follows, Fits, FitsAt, CallAt, Succeeded
    <3> QED
      BY <1>0, <2>1, <3>1, <3>2 DEF Follows, Fits, Succeeded, SameStage
  <2> QED
    BY <2>4, <2>5
<1>6. ASSUME run'.owner = NoHost, run'.waits = run.waits, run'.checkpoint = run.checkpoint,
             ~run.cancellationRequested,
             \A c \in Call : ops'[c].status = "succeeded" =>
                                Succeeded(c) \/ ops'[c].resolution = "Succeeded"
      PROVE  Rest
  <2>1. \A d \in Call : FitsAt(d, run.checkpoint[d]) /\ Vouched(d)
    BY <1>6 DEF FollowInv, Fits
  <2>2. \A d \in Call : FitsAt(d, run.checkpoint[d])' /\ Vouched(d)'
    BY <1>0, <1>6, <2>1 DEF FitsAt, Vouched, Succeeded, Grows
  <2> QED
    BY <1>6, <2>2, OperationsAssumption DEF Fits
<1>7. ASSUME NEW c \in Call, Resolve(c), ~run'.cancellationRequested PROVE Rest
  <2>1. ~run.cancellationRequested
    BY <1>0, <1>7 DEF Grows
  <2> PICK o \in [Call -> Operation], r \in StoredRun : Resolved(c, o, r) /\ ops' = o /\ run' = r
    BY <1>0, <1>7, <2>1, ResolutionTyped
  <2>2. /\ run'.owner = NoHost /\ run'.waits = run.waits /\ run'.checkpoint = run.checkpoint
        /\ \A d \in Call : ops'[d].status = "succeeded" =>
                                Succeeded(d) \/ ops'[d].resolution = "Succeeded"
    BY DEF Resolved, Succeeded
  <2> QED
    BY <1>6, <2>1, <2>2
<1>8. ASSUME NEW c \in Call, OperatorRetry(c), ~run.cancellationRequested PROVE Rest
  <2>1. /\ run'.owner = NoHost /\ run'.waits = run.waits /\ run'.checkpoint = run.checkpoint
        /\ \A d \in Call : ops'[d].status = "succeeded" => Succeeded(d)
    BY <1>0, <1>8 DEF OperatorRetry, StoredRun, Settle, Operation, Succeeded
  <2> QED
    BY <1>6, <1>8, <2>1
<1>9. run'.cancellationRequested \/ Rest
  <2>1. ~run'.cancellationRequested => ~run.cancellationRequested
    BY <1>0 DEF Grows
  <2>2. CASE Cancel
    BY <1>0, <2>2, Cancelling DEF Cancel
  <2> QED
    BY <1>5, <1>7, <1>8, <2>1, <2>2 DEF OutsideStep
<1> QED
  BY <1>1, <1>2, <1>3, <1>9 DEF FollowInv, Fenced

LEMMA FollowInit == OpsInit => FollowInv
<1> SUFFICES ASSUME OpsInit PROVE FollowInv
  OBVIOUS
<1>1. /\ \A c \in Call : ops[c].status = "absent" /\ run.waits[c] = "absent" /\ run.checkpoint[c] = "ready"
      /\ run.status = "running" /\ run.owner = NoHost
  BY DEF OpsInit, Fresh
<1>2. \A h \in Hosts : exec[h].phase = "idle" /\ \A c \in Call : exec[h].answers[c] = "absent"
  BY DEF OpsInit, Idle
<1>3. StartsInOrder /\ SuccessIsWhole /\ MemoryFits
  BY <1>1, <1>2 DEF StartsInOrder, SuccessIsWhole, MemoryFits, MemoryOf
<1>4. Fits(run.checkpoint) /\ \A c \in Call : Vouched(c)
  BY <1>1 DEF Fits, FitsAt, Vouched, Succeeded
<1> QED
  BY <1>1, <1>3, <1>4, OperationsAssumption DEF FollowInv, Fenced

LEMMA FollowInvKept == OpsInv /\ FollowInv /\ [OpsNext]_opsVars => FollowInv'
<1> SUFFICES ASSUME OpsInv, FollowInv, [OpsNext]_opsVars PROVE FollowInv'
  OBVIOUS
<1>1. CASE UNCHANGED opsVars
  BY <1>1 DEF opsVars, FollowInv, StartsInOrder, SuccessIsWhole, MemoryFits, MemoryOf, Fits, FitsAt,
              CallAt, Vouched, Succeeded, Follows, Before, SameStage, Fenced
<1> QED
  BY <1>1, HostsFollow, CallersFollow DEF OpsNext

\* A call starts when every call of the stages before it has succeeded, a gated one
\* after its approval, and a Run that succeeded has run every call to a success: an
\* effect that took place, or one that an operator vouched for.
THEOREM BatchesAreFollowed == OpsSpec => []BatchIsFollowed
<1>1. OpsInv /\ FollowInv => BatchIsFollowed
  BY DEF FollowInv, StartsInOrder, SuccessIsWhole, BatchIsFollowed, Before, Succeeded, Vouched
<1> QED
  BY <1>1, OpsInitInv, OpsInvKept, FollowInit, FollowInvKept, PTL DEF OpsSpec

-----------------------------------------------------------------------------
(* Unknown outcomes keep the Run in needs-resolution.                      *)

\* A cancellation took the Run on to an operation that can be cancelled.
Escaped == run.status = "cancelling" /\ \E c \in Cancellable : ops[c].status # "absent"
UnknownShown ==
    /\ run.status = "cancelling" => run.cancellationRequested
    /\ HasUnknown /\ ~HasEnded => run.status = "needs-resolution" \/ Escaped
\* The execution that has the claim knows the unknown outcomes: it had them itself,
\* in this stage, and will not suspend.
Knows(h) ==
    /\ exec[h].phase = "batch" => \A c \in Call : ops[c].status = "unknown" =>
            c \in Stage(exec[h].at) /\ exec[h].pc[c] = "failed"
    /\ exec[h].phase = "suspending" => ~HasUnknown
UnknownInv == UnknownShown /\ \A h \in Hosts : Fenced(h) => Knows(h)

LEMMA ShownStill ==
    ASSUME Grows, UnknownShown, run'.status = run.status,
           HasUnknown' => HasUnknown
    PROVE  UnknownShown'
<1>1. Cancellable \subseteq Call
  BY OperationsAssumption
<1> QED
  BY <1>1 DEF Grows, UnknownShown, Escaped, HasEnded

\* The expiry of running operations.
LEMMA ExpiryShows ==
    ASSUME OpsTypeOK, Grows, UnknownShown, NEW S \in SUBSET Call, ops' = Expired(S),
           run' = [run EXCEPT !.status = StatusAfterExpiry(S)]
    PROVE  UnknownShown'
<1>1. run'.status = StatusAfterExpiry(S)
  BY DEF OpsTypeOK, StoredRun
<1>2. CASE run'.status = "needs-resolution"
  BY <1>2 DEF UnknownShown
<1>3. CASE HasEnded
  <2>1. run'.status = run.status
    BY <1>1, <1>3 DEF StatusAfterExpiry
  <2> QED
    BY <1>3, <2>1 DEF UnknownShown, HasEnded, Ended
<1>4. CASE run'.status # "needs-resolution" /\ ~HasEnded
  <2>1. run'.status = run.status /\ \A c \in S \cap Never : ops[c].status # "running"
    BY <1>1, <1>4 DEF StatusAfterExpiry
  <2>2. \A c \in Call : ops'[c].status = "unknown" => ops[c].status = "unknown"
    BY <2>1 DEF OpsTypeOK, Operation, Expired
  <2> QED
    BY <2>1, <2>2, ShownStill DEF HasUnknown
<1> QED
  BY <1>2, <1>3, <1>4

\* The outcome a call commits, and what its execution knows of it.
LEMMA CallKnows ==
    ASSUME OpsInv, FollowInv, UnknownInv, NEW h \in Hosts, CallStep(h), Fenced(h)
    PROVE  UnknownShown' /\ Knows(h)'
<1>0. /\ OpsTypeOK /\ exec \in [Hosts -> Execution] /\ exec[h] \in Execution
      /\ ops \in [Call -> Operation] /\ exec[h].phase = "batch" /\ Grows /\ Knows(h)
  BY CallSteps, HostsGrow DEF OpsInv, OpsTypeOK, FollowInv, HostStep, UnknownInv
<1> PICK c \in Call : \/ Authorize(h, c) \/ Record(h, c) \/ Begin(h, c) \/ Perform(h, c)
                      \/ Succeed(h, c) \/ Reject(h, c) \/ Defect(h, c)
  BY DEF CallStep
<1>1. c \in Stage(exec[h].at) /\ exec[h].pc[c] # "failed"
  BY DEF Authorize, Record, Begin, Perform, Succeed, Reject, Defect, InStage
<1>2. /\ exec'[h].phase = "batch" /\ exec'[h].at = exec[h].at
      /\ \A d \in Call \ {c} : exec'[h].pc[d] = exec[h].pc[d]
  BY <1>0 DEF Authorize, Record, Begin, Perform, Succeed, Reject, Defect, Refused, Commit, Step,
              Execution
<1>3. ops[c].status # "unknown"
  BY <1>0, <1>1 DEF Knows
<1>4. \A status : /\ Settle(c, status)[c].status = status
                  /\ \A d \in Call \ {c} : Settle(c, status)[d] = ops[d]
  BY <1>0 DEF Settle, Operation
<1>5. ASSUME \A d \in Call : ops'[d].status = "unknown" => ops[d].status = "unknown",
             run'.status = run.status
      PROVE  UnknownShown' /\ Knows(h)'
  <2>1. UnknownShown'
    BY <1>0, <1>5, ShownStill DEF UnknownInv, HasUnknown
  <2>2. \A d \in Call : ops'[d].status = "unknown" => d # c
    BY <1>3, <1>5
  <2>3. Knows(h)'
    BY <1>0, <1>2, <1>5, <2>2 DEF Knows, Stage, SameStage
  <2> QED
    BY <2>1, <2>3
<1>6. CASE c \in Never /\ Defect(h, c) /\ ops'[c].status = "unknown"
  <2>1. ~Refused(h, c) /\ Commit(h, c, "unknown", "unknown", "failed")
    BY <1>3, <1>6 DEF Defect, Refused
  <2>2. /\ exec' = [Step(h, c, "failed", "unknown") EXCEPT ![h].active = @ \ {c}]
        /\ ops[c].status \notin CompletedStatuses
        /\ ops' = Settle(c, "unknown")
        /\ run' = [run EXCEPT !.checkpoint = [exec[h].batch EXCEPT ![c] = "unknown"],
                              !.status = "needs-resolution"]
    BY <1>3, <1>6, <2>1 DEF Commit
  <2>3. run'.status = "needs-resolution"
    BY <2>2 DEF OpsInv, OpsTypeOK, StoredRun
  <2>4. exec'[h].pc[c] = "failed"
    <3>1. Moves(h, c, "failed")
      BY <1>0, <2>2, Moving
    <3> QED
      BY <1>0, <3>1 DEF Moves, Execution
  <2>5. \A d \in Call \ {c} : ops'[d] = ops[d]
    BY <1>4, <2>2
  <2>6. Knows(h)'
    BY <1>0, <1>1, <1>2, <2>4, <2>5 DEF Knows, Stage, SameStage
  <2> QED
    BY <2>3, <2>6 DEF UnknownShown
<1>7. CASE ~(c \in Never /\ Defect(h, c) /\ ops'[c].status = "unknown")
  <2>1. \/ ops' = ops
        \/ \E status \in {"requested", "running", "succeeded", "failed"} : ops' = Settle(c, status)
    BY <1>4, <1>7 DEF Authorize, Record, Begin, Perform, Succeed, Reject, Defect, Refused, Commit
  <2>2. run'.status = run.status
    <3>1. CASE Defect(h, c) /\ c \in Never
      <4>1. ~(ops' = Settle(c, "unknown"))
        BY <1>4, <1>7, <3>1
      <4> QED
        BY <3>1, <4>1 DEF Defect, Commit, Refused
    <3>2. CASE ~(Defect(h, c) /\ c \in Never)
      BY <1>0, <3>2 DEF Authorize, Record, Begin, Perform, Succeed, Reject, Defect, Refused, Commit,
                        OpsTypeOK, StoredRun
    <3> QED
      BY <3>1, <3>2
  <2>3. \A d \in Call : ops'[d].status = "unknown" => ops[d].status = "unknown"
    BY <1>4, <2>1
  <2> QED
    BY <1>5, <2>2, <2>3
<1> QED
  BY <1>6, <1>7

LEMMA HostKnows ==
    ASSUME OpsInv, FollowInv, UnknownInv, NEW h \in Hosts, HostStep(h) \/ HostFault(h)
    PROVE  UnknownShown' /\ (run'.owner = h => Knows(h)')
<1>0. /\ OpsTypeOK /\ exec \in [Hosts -> Execution] /\ exec[h] \in Execution
      /\ ops \in [Call -> Operation] /\ run \in StoredRun /\ h # NoHost
      /\ exec[h].active \in SUBSET Call
      /\ Grows /\ HostChanges(h) /\ UnknownShown /\ (Fenced(h) => Knows(h))
  BY HostsGrow, HostsChange, OperationsAssumption
     DEF OpsInv, OpsTypeOK, FollowInv, UnknownInv, Execution
<1>1. exec'[h].phase \notin {"batch", "suspending"} => Knows(h)'
  BY DEF Knows
\* The operations stay, and the Run keeps its status or ends.
<1>2. ASSUME \A c \in Call : ops'[c].status = "unknown" => ops[c].status = "unknown",
             run'.status = run.status \/ run'.status \in Ended
      PROVE  UnknownShown'
  <2>1. CASE run'.status = run.status
    BY <1>0, <1>2, <2>1, ShownStill DEF HasUnknown
  <2>2. CASE run'.status \in Ended
    BY <2>2 DEF UnknownShown, HasEnded, Ended
  <2> QED
    BY <1>2, <2>1, <2>2
<1>3. Leave(h) => exec'[h].phase = "leaving"
  BY <1>0 DEF Leave
<1>4. CASE Claim(h)
  <2>1. /\ exec'[h].phase = "loading" /\ ops' = ops
        /\ run'.status = IF run.cancellationRequested THEN "cancelling" ELSE "running"
        /\ run'.cancellationRequested = run.cancellationRequested
        /\ run.status \in {"running", "cancelling"}
    BY <1>0, <1>4 DEF Claim, StoredRun
  <2>2. UnknownShown'
    BY <1>0, <2>1 DEF UnknownShown, Escaped, HasUnknown, HasEnded, Ended
  <2> QED
    BY <1>1, <2>1, <2>2
<1>5. CASE Load(h)
  <2>1. CASE ~Fenced(h)
    <3>1. Leave(h) /\ run' = run /\ ops' = ops
      BY <1>5, <2>1 DEF Load
    <3> QED
      BY <1>1, <1>2, <1>3, <3>1
  <2>2. CASE Fenced(h)
    <3>1. /\ ops' = Expired(Call)
          /\ run' = [run EXCEPT !.status = StatusAfterExpiry(Call)]
      BY <1>5, <2>2 DEF Load
    <3>2. UnknownShown'
      BY <1>0, <3>1, ExpiryShows
    <3>3. ~HasEnded /\ exec[h].phase = "loading"
      BY <1>5, <2>2 DEF Load, OpsInv, RunInv
    <3>4. CASE exec'[h].phase = "batch"
      <4>1. ~run.cancellationRequested
        BY <1>0, <1>5, <3>4, LoadedBatch
      <4>2. exec' = [exec EXCEPT ![h] =
                [@ EXCEPT !.phase = IF run'.status = "needs-resolution" THEN "leaving" ELSE "batch",
                          !.batch = run.checkpoint,
                          !.answers = run.waits,
                          !.pc = [c \in Call |-> Resumed(run.checkpoint[c], run.waits[c])]]]
        BY <1>5, <2>2, <4>1 DEF Load
      <4>3. run'.status # "needs-resolution"
        BY <1>0, <3>4, <4>2 DEF Execution
      <4>4. run'.status = run.status
        BY <1>0, <3>1, <4>3 DEF StatusAfterExpiry, StoredRun
      <4>5. ~HasUnknown'
        BY <1>0, <3>2, <3>3, <4>1, <4>3, <4>4 DEF UnknownShown, Escaped, HasEnded
      <4>6. \A c \in Call : ops'[c].status # "unknown"
        BY <4>5 DEF HasUnknown
      <4> QED
        BY <3>2, <3>4, <4>6 DEF Knows
    <3>5. CASE exec'[h].phase # "batch"
      <4>1. exec'[h].phase # "suspending"
        <5>1. CASE run.cancellationRequested
          <6>1. exec' = [exec EXCEPT ![h] = [@ EXCEPT !.phase = "reconciling", !.active = ToDeliver]]
            BY <1>5, <2>2, <5>1 DEF Load
          <6> QED
            BY <1>0, <6>1 DEF Execution
        <5>2. CASE ~run.cancellationRequested
          <6>1. exec' = [exec EXCEPT ![h] =
                [@ EXCEPT !.phase = IF run'.status = "needs-resolution" THEN "leaving" ELSE "batch",
                          !.batch = run.checkpoint,
                          !.answers = run.waits,
                          !.pc = [c \in Call |-> Resumed(run.checkpoint[c], run.waits[c])]]]
            BY <1>5, <2>2, <5>2 DEF Load
          <6> QED
            BY <1>0, <6>1 DEF Execution
        <5> QED
          BY <5>1, <5>2
      <4> QED
        BY <1>1, <3>2, <3>5, <4>1
    <3> QED
      BY <3>4, <3>5
  <2> QED
    BY <2>1, <2>2
<1>6. CASE Release(h) \/ Crash(h)
  <2>1. exec'[h].phase = "idle" /\ ops' = ops /\ run'.status = run.status
    BY <1>0, <1>6 DEF Release, Crash, Idle, StoredRun
  <2> QED
    BY <1>1, <1>2, <2>1
<1>7. CASE CallStep(h)
  <2>1. CASE Fenced(h)
    BY <1>7, <2>1, CallKnows
  <2>2. CASE ~Fenced(h)
    <3>1. run'.owner # h
      BY <1>0, <1>7, <2>2, CallSteps DEF KeepsRun, Fenced
    <3>2. run' = run /\ ops' = ops
      BY <1>0, <2>2, <3>1 DEF HostChanges
    <3> QED
      BY <1>2, <3>1, <3>2
  <2> QED
    BY <2>1, <2>2
<1>8. CASE StageEnd(h)
  <2>1. ops' = ops /\ run'.status = run.status /\ run'.owner = run.owner /\ exec[h].phase = "batch"
    BY <1>0, <1>8 DEF StageEnd, StoredRun
  <2>2. UnknownShown'
    BY <1>2, <2>1
  <2>3. CASE exec'[h].phase \in {"batch", "suspending"} /\ Fenced(h)
    <3>1. ~Leave(h) /\ ~(exec' = To(h, "settling")) /\ ~(exec' = To(h, "completing"))
      <4>1. exec' = To(h, "settling") => exec'[h].phase = "settling"
        BY <1>0 DEF To, Idle
      <4>2. exec' = To(h, "completing") => exec'[h].phase = "completing"
        BY <1>0 DEF To, Idle
      <4> QED
        BY <1>3, <2>3, <4>1, <4>2
    <3>2. \A c \in Stage(exec[h].at) : exec[h].pc[c] = "done"
      BY <1>8, <3>1 DEF StageEnd
    <3>3. \A c \in Call : ops[c].status # "unknown"
      BY <1>0, <2>1, <2>3, <3>2 DEF Knows
    <3> QED
      BY <2>1, <2>2, <3>3 DEF Knows, HasUnknown
  <2>4. CASE ~(exec'[h].phase \in {"batch", "suspending"} /\ Fenced(h))
    BY <1>1, <2>1, <2>2, <2>4 DEF Fenced
  <2> QED
    BY <2>3, <2>4
<1>9. CASE Suspend(h)
  <2>1. Leave(h) /\ ops' = ops /\ exec[h].phase = "suspending"
    BY <1>9 DEF Suspend
  <2>2. CASE run' = run
    BY <1>1, <1>2, <1>3, <2>1, <2>2
  <2>3. CASE run' # run
    <3>1. Fenced(h) /\ run'.status = "waiting"
      BY <1>0, <1>9, <2>3 DEF Suspend, StoredRun
    <3>2. ~HasUnknown'
      BY <1>0, <2>1, <3>1 DEF Knows, HasUnknown
    <3> QED
      BY <1>1, <1>3, <2>1, <3>1, <3>2 DEF UnknownShown
  <2> QED
    BY <2>2, <2>3
<1>10. CASE Complete(h) \/ Fail(h)
  <2>1. Leave(h) /\ ops' = ops
    BY <1>10 DEF Complete, Fail
  <2>2. run'.status = run.status \/ run'.status \in Ended
    BY <1>0, <1>10 DEF Complete, Fail, Finished, StoredRun, Ended
  <2> QED
    BY <1>1, <1>2, <1>3, <2>1, <2>2
<1>11. CASE SettleActive(h)
  <2>1. exec'[h].phase \in {"leaving", "failing"}
    BY <1>0, <1>3, <1>11 DEF SettleActive, Execution
  <2>2. CASE run' = run /\ ops' = ops
    BY <1>1, <1>2, <2>1, <2>2
  <2>3. CASE ~(run' = run /\ ops' = ops)
    <3>1. /\ ops' = Expired(exec[h].active)
          /\ run' = [run EXCEPT !.status = StatusAfterExpiry(exec[h].active)]
      BY <1>11, <2>3 DEF SettleActive
    <3>2. UnknownShown'
      BY <1>0, <3>1, ExpiryShows
    <3> QED
      BY <1>1, <2>1, <3>2
  <2> QED
    BY <2>2, <2>3
<1>12. CASE Abandon(h)
  <2>1. Leave(h)
    BY <1>12 DEF Abandon
  <2>2. CASE run' = run /\ ops' = ops
    BY <1>1, <1>2, <1>3, <2>1, <2>2
  <2>3. CASE ~(run' = run /\ ops' = ops)
    <3>1. /\ ops' = Expired(exec[h].active)
          /\ run' = [run EXCEPT !.status = StatusAfterExpiry(exec[h].active)]
      BY <1>12, <2>3 DEF Abandon
    <3>2. UnknownShown'
      BY <1>0, <3>1, ExpiryShows
    <3> QED
      BY <1>1, <1>3, <2>1, <3>2
  <2> QED
    BY <2>2, <2>3
<1>13. CASE Interrupt(h) \/ Reconciled(h) \/ CancelFails(h)
  <2>1. run' = run /\ ops' = ops
    BY <1>13 DEF Interrupt, Reconciled, CancelFails
  <2>2. exec'[h].phase \in {"settling", "failing", "leaving"}
    <3>1. Leave(h) \/ \E phase \in {"settling", "failing"} : exec' = To(h, phase)
      BY <1>13 DEF Interrupt, Reconciled, CancelFails
    <3>2. \A phase \in {"settling", "failing"} : exec' = To(h, phase) => exec'[h].phase = phase
      BY <1>0 DEF To, Idle
    <3> QED
      BY <1>3, <3>1, <3>2
  <2> QED
    BY <1>1, <1>2, <2>1, <2>2
<1>14. ASSUME NEW c \in Call, Acknowledge(h, c)
       PROVE  UnknownShown' /\ Knows(h)'
  <2>1. run' = run /\ exec[h].phase = "reconciling"
    BY <1>14 DEF Acknowledge
  <2>2. \A d \in Call : ops'[d].status = "unknown" => ops[d].status = "unknown"
    BY <1>0, <1>14 DEF Acknowledge, Settle, Operation
  <2>3. exec'[h].phase \in {"leaving", "reconciling"}
    BY <1>0, <1>3, <1>14, <2>1 DEF Acknowledge, Execution
  <2> QED
    BY <1>1, <1>2, <2>1, <2>2, <2>3
<1>15. CASE LeaseLapses(h)
  <2>1. run'.owner = NoHost /\ ops' = ops /\ run'.status = run.status
    BY <1>0, <1>15 DEF LeaseLapses, StoredRun
  <2> QED
    BY <1>0, <1>2, <2>1
<1> QED
  BY <1>4, <1>5, <1>6, <1>7, <1>8, <1>9, <1>10, <1>11, <1>12, <1>13, <1>14, <1>15
     DEF HostStep, HostFault

LEMMA HostsKeepUnknown ==
    ASSUME OpsInv, FollowInv, UnknownInv, NEW h \in Hosts, HostStep(h) \/ HostFault(h)
    PROVE  UnknownInv'
<1>1. HostChanges(h) /\ UnknownShown' /\ (run'.owner = h => Knows(h)')
  BY HostKnows, HostsChange DEF OpsInv, FollowInv
<1>2. ASSUME NEW k \in Hosts \ {h}, run'.owner = k PROVE Knows(k)'
  <2>1. exec'[k] = exec[k] /\ run.owner = k
    BY <1>1, <1>2, OperationsAssumption DEF HostChanges
  <2>2. run' = run /\ ops' = ops
    BY <1>1, <1>2, <2>1 DEF HostChanges, Fenced
  <2>3. Knows(k)
    BY <2>1 DEF UnknownInv, Fenced
  <2> QED
    BY <2>1, <2>2, <2>3 DEF Knows, HasUnknown, Stage, SameStage
<1> QED
  BY <1>1, <1>2 DEF UnknownInv, Fenced

\* A cancellation leaves an unknown outcome in needs-resolution, or takes the Run on
\* to an operation that it marks.
LEMMA CancelShows ==
    ASSUME NEW r \in StoredRun, NEW o \in [Call -> Operation],
           (\E c \in Call : o[c].status = "unknown") =>
                \/ r.status = "needs-resolution"
                \/ /\ r.status = "cancelling" /\ r.cancellationRequested
                   /\ \E c \in Cancellable : o[c].status # "absent",
           ops' = Marked(o), run' = AfterCancel(r, o)
    PROVE  UnknownShown'
<1>1. Cancellable \subseteq Call /\ run'.cancellationRequested
  BY Cancelling, OperationsAssumption
<1>2. \A c \in Call : o[c].status # "absent" => ops'[c].status # "absent"
  BY Cancelling
<1>3. ASSUME NEW d \in Call, ops'[d].status = "unknown", run'.status # "needs-resolution"
      PROVE  run'.status = "cancelling" /\ \E c \in Cancellable : ops'[c].status # "absent"
  <2>1. o[d].status = "unknown"
    BY <1>3, Cancelling
  <2>2. run'.status = IF r.status = "needs-resolution" /\ Markable(o) = {} THEN "needs-resolution"
                      ELSE IF r.cancellationRequested /\ r.status # "needs-resolution"
                      THEN r.status ELSE "cancelling"
    BY <1>3 DEF AfterCancel, StoredRun
  <2>3. CASE r.status = "needs-resolution"
    <3>1. run'.status = "cancelling" /\ Markable(o) # {}
      BY <1>3, <2>2, <2>3
    <3>2. PICK c \in Markable(o) : TRUE
      BY <3>1
    <3>3. c \in Cancellable /\ o[c].status # "absent"
      BY <3>2 DEF Markable
    <3> QED
      BY <1>1, <1>2, <3>1, <3>3
  <2>4. CASE r.status # "needs-resolution"
    BY <1>1, <1>2, <2>1, <2>2, <2>4
  <2> QED
    BY <2>3, <2>4
<1> QED
  BY <1>1, <1>3 DEF UnknownShown, HasUnknown, Escaped

LEMMA CallersKeepUnknown ==
    ASSUME OpsInv, UnknownInv, OutsideStep, \A c \in Call : Respond(c) => ~HasUnknown
    PROVE  UnknownInv'
<1>0. /\ OpsTypeOK /\ run \in StoredRun /\ ops \in [Call -> Operation]
      /\ Grows /\ exec' = exec
  BY CallersGrow DEF OpsInv, OpsTypeOK
<1>1. Cancellable \subseteq Call /\ NoHost \notin Hosts
  BY OperationsAssumption
<1>2. ASSUME \A c \in Call : ops'[c].status = "unknown" => ops[c].status = "unknown",
             run'.owner \in {run.owner, NoHost}
      PROVE  \A h \in Hosts : run'.owner = h => Knows(h)'
  BY <1>0, <1>1, <1>2 DEF UnknownInv, Knows, Fenced, HasUnknown, Stage, SameStage
<1>3. CASE Cancel
  <2>1. ops' = Marked(ops) /\ run' = AfterCancel(run, ops) /\ ~HasEnded
    BY <1>3 DEF Cancel
  <2>2. UnknownShown'
    BY <1>0, <2>1, CancelShows DEF UnknownInv, UnknownShown, Escaped, HasUnknown
  <2>3. \A c \in Call : ops'[c].status = "unknown" => ops[c].status = "unknown"
    BY <1>0, <2>1, Cancelling
  <2>4. run'.owner = run.owner
    BY <1>0, <2>1, Cancelling
  <2> QED
    BY <1>2, <2>2, <2>3, <2>4 DEF UnknownInv, Fenced
<1>4. ASSUME NEW c \in Call, Respond(c) PROVE UnknownInv'
  <2>1. ops' = ops /\ run'.status = "running" /\ run'.owner = run.owner /\ ~HasUnknown
    BY <1>0, <1>4 DEF Respond, StoredRun
  <2>2. UnknownShown'
    BY <2>1 DEF UnknownShown, HasUnknown
  <2> QED
    BY <1>2, <2>1, <2>2 DEF UnknownInv, Fenced
<1>5. ASSUME NEW c \in Call, Resolve(c) PROVE UnknownInv'
  <2> PICK o \in [Call -> Operation], r \in StoredRun :
          /\ Resolved(c, o, r)
          /\ \/ run.cancellationRequested /\ ops' = Marked(o) /\ run' = AfterCancel(r, o)
             \/ ops' = o /\ run' = r
    BY <1>0, <1>5, ResolutionTyped
  <2>1. run'.owner = NoHost
    BY Cancelling DEF Resolved
  <2>2. /\ r.status = "needs-resolution" <=> \E d \in Call : o[d].status = "unknown"
        /\ r.status = "cancelling" => r.cancellationRequested
    BY DEF Resolved
  <2>3. UnknownShown'
    <3>1. CASE ops' = o /\ run' = r
      BY <2>2, <3>1 DEF UnknownShown, HasUnknown
    <3>2. CASE ops' = Marked(o) /\ run' = AfterCancel(r, o)
      BY <2>2, <3>2, CancelShows
    <3> QED
      BY <3>1, <3>2
  <2> QED
    BY <1>1, <2>1, <2>3 DEF UnknownInv, Fenced
<1>6. ASSUME NEW c \in Call, OperatorRetry(c) PROVE UnknownInv'
  <2>1. /\ run'.owner = NoHost /\ run'.status = "running" /\ ~HasUnknown
        /\ ops'[c].status = "requested" /\ \A d \in Call \ {c} : ops'[d] = ops[d]
    BY <1>0, <1>6 DEF OperatorRetry, StoredRun, Settle, Operation
  <2> QED
    BY <1>1, <2>1 DEF UnknownInv, UnknownShown, Fenced, HasUnknown
<1> QED
  BY <1>3, <1>4, <1>5, <1>6 DEF OutsideStep

LEMMA UnknownInit == OpsInit => UnknownInv
BY OperationsAssumption DEF OpsInit, UnknownInv, UnknownShown, HasUnknown, Fenced

LEMMA UnknownIsNeeded == OpsInv /\ UnknownInv => UnknownNeedsResolution
BY DEF OpsInv, RunInv, UnknownInv, UnknownShown, Escaped, UnknownNeedsResolution

\* No response finds an unknown outcome.
Heedful == \A c \in Call : Respond(c) => ~HasUnknown

LEMMA UnknownStep ==
    OpsInv /\ FollowInv /\ UnknownInv /\ [OpsNext]_opsVars /\ [Heedful]_opsVars => UnknownInv'
<1> SUFFICES ASSUME OpsInv, FollowInv, UnknownInv, [OpsNext]_opsVars, [Heedful]_opsVars
             PROVE  UnknownInv'
  OBVIOUS
<1>1. CASE UNCHANGED opsVars
  BY <1>1 DEF opsVars, UnknownInv, UnknownShown, Escaped, Knows, HasUnknown, HasEnded, Fenced,
              Stage, SameStage
<1>2. ASSUME NEW h \in Hosts, HostStep(h) \/ HostFault(h) PROVE UnknownInv'
  BY <1>2, HostsKeepUnknown
<1>3. CASE OutsideStep /\ ~UNCHANGED opsVars
  BY <1>3, CallersKeepUnknown DEF Heedful
<1> QED
  BY <1>1, <1>2, <1>3 DEF OpsNext

\* Responses that find an unknown outcome aside, an unknown outcome keeps its Run in
\* needs-resolution until an operator resolves it or the Run ends, unless a cancellation
\* took the Run on to an operation that can be cancelled.
THEOREM UnknownIsKept == OpsSpec /\ [][Heedful]_opsVars => []UnknownNeedsResolution
BY UnknownStep, OpsInitInv, OpsInvKept, FollowInit, FollowInvKept, UnknownInit, UnknownIsNeeded, PTL
   DEF OpsSpec

-----------------------------------------------------------------------------
(* One approval at a time.                                                 *)

\* A stage asks for one approval at most.
OneApproval == \A c, d \in Gated : SameStage(c, d) => c = d

\* A batch that waits for a gated call has passed the stages before it.
WaitsFor(batch) ==
    \A c \in Call : batch[c] = "waiting" => c \in Gated /\ \A d \in Before(c) : Succeeded(d)
\* What an execution may open a wait for has none yet.
Asks(h) ==
    exec[h].phase \in {"batch", "suspending"} =>
        /\ WaitsFor(exec[h].batch)
        /\ \A c \in Unanswered(h) : run.waits[c] = "absent"
OneWait ==
    ~run.cancellationRequested =>
        /\ \A c \in Call : /\ run.waits[c] # "cancelled"
                           /\ run.waits[c] = "open" => run.status = "waiting"
        /\ \A c, d \in Call : run.waits[c] = "open" /\ run.waits[d] = "open" => c = d
        /\ WaitsFor(run.checkpoint)
        /\ \A h \in Hosts : Fenced(h) => Asks(h)

\* The calls before a call are calls.
LEMMA Earlier == \A c \in Call : Before(c) \subseteq Call
BY OperationsAssumption DEF Before, Call

LEMMA WaitsKept ==
    ASSUME Grows, NEW batch, WaitsFor(batch)
    PROVE  \A c \in Call : batch[c] = "waiting" =>
                c \in Gated /\ \A d \in Before(c) : ops'[d].status = "succeeded"
BY Earlier DEF WaitsFor, Grows

LEMMA LoadAsks ==
    ASSUME OpsInv, FollowInv, OneWait, NEW h \in Hosts, Load(h), exec'[h].phase = "batch"
    PROVE  Asks(h)'
<1>0. /\ OpsTypeOK /\ run \in StoredRun /\ Grows
  BY HostsGrow DEF OpsInv, OpsTypeOK, FollowInv, HostStep
<1>1. /\ Fenced(h) /\ ~run.cancellationRequested
      /\ exec'[h].batch = run.checkpoint /\ exec'[h].answers = run.waits /\ run'.waits = run.waits
  BY <1>0, LoadedBatch
<1> PICK batch : batch = run.checkpoint
  OBVIOUS
<1>2. WaitsFor(exec[h].batch)'
  <2>1. WaitsFor(batch)
    BY <1>1 DEF OneWait
  <2> QED
    BY <1>0, <1>1, <2>1, WaitsKept DEF WaitsFor, Succeeded, Before, SameStage
<1>3. ASSUME NEW c \in Call, run.waits[c] \notin {"approved", "denied"} PROVE run.waits[c] = "absent"
  <2>1. run.status # "waiting"
    BY <1>1, OperationsAssumption DEF OpsInv, RunInv, Fenced
  <2> QED
    BY <1>0, <1>1, <1>3, <2>1 DEF OneWait, StoredRun, WaitStatuses
<1> QED
  BY <1>1, <1>2, <1>3 DEF Asks, Unanswered

LEMMA CallAsks ==
    ASSUME OpsInv, FollowInv, OneWait, NEW h \in Hosts, Fenced(h), ~run.cancellationRequested,
           CallStep(h)
    PROVE  Asks(h)' /\ WaitsFor(run.checkpoint)'
<1>0. /\ OpsTypeOK /\ exec \in [Hosts -> Execution] /\ exec[h] \in Execution
      /\ exec[h].phase = "batch" /\ Grows /\ run'.waits = run.waits
  BY CallSteps, HostsGrow, CallChanges DEF OpsInv, OpsTypeOK, FollowInv, HostStep
<1>1. /\ Follows(h) /\ \A c \in Call : Vouched(c)
      /\ WaitsFor(exec[h].batch) /\ WaitsFor(run.checkpoint)
      /\ \A c \in Unanswered(h) : run.waits[c] = "absent"
  BY <1>0 DEF FollowInv, OneWait, Asks
<1> PICK c \in Call : \E pc, state : CallProceeds(h, c, pc, state)
  BY <1>1, CallsProceed DEF FollowInv
<1> PICK pc, state : CallProceeds(h, c, pc, state)
  OBVIOUS
<1> PICK held, saved : held = exec[h].batch /\ saved = run.checkpoint
  OBVIOUS
<1>2. /\ exec'[h].answers = exec[h].answers
      /\ exec'[h].batch[c] = state /\ \A d \in Call \ {c} : exec'[h].batch[d] = held[d]
  BY <1>0 DEF CallProceeds, CallMoved, Execution, Batches
<1>3. ASSUME state = "waiting"
      PROVE  /\ c \in Gated /\ \A d \in Before(c) : ops'[d].status = "succeeded"
             /\ held[c] = "waiting" \/ run.waits[c] = "absent"
  <2>1. c \in Stage(exec[h].at) /\ (held[c] = "waiting" \/ (c \in Gated /\ held[c] = "ready"))
    BY <1>3 DEF CallProceeds
  <2>2. CASE held[c] = "waiting"
    BY <1>0, <1>1, <2>2, WaitsKept
  <2>3. CASE c \in Gated /\ held[c] = "ready"
    <3>1. /\ exec[h].at \in Call /\ run.waits[c] = "absent"
          /\ \A d \in 1..(exec[h].at - 1) : Succeeded(d)
      BY <1>0, <1>1, <2>3 DEF Follows, Fits, FitsAt
    <3>2. \A d \in Before(c) : Succeeded(d)
      BY <2>1, <3>1, StagesInOrder
    <3> QED
      BY <1>0, <2>3, <3>1, <3>2, Earlier DEF Grows
  <2> QED
    BY <2>1, <2>2, <2>3
<1>4. WaitsFor(exec[h].batch)'
  <2>1. ASSUME NEW d \in Call, exec'[h].batch[d] = "waiting"
        PROVE  d \in Gated /\ \A e \in Before(d) : ops'[e].status = "succeeded"
    <3>1. CASE d = c
      BY <1>2, <1>3, <2>1, <3>1
    <3>2. CASE d # c
      BY <1>0, <1>1, <1>2, <2>1, <3>2, WaitsKept
    <3> QED
      BY <3>1, <3>2
  <2> QED
    BY <2>1 DEF WaitsFor, Succeeded, Before, SameStage
<1>5. WaitsFor(run.checkpoint)'
  <2>1. ASSUME NEW d \in Call, run'.checkpoint[d] = "waiting"
        PROVE  d \in Gated /\ \A e \in Before(d) : ops'[e].status = "succeeded"
    <3>1. CASE run'.checkpoint = run.checkpoint
      BY <1>0, <1>1, <2>1, <3>1, WaitsKept
    <3>2. ASSUME NEW kept \in {state, "scheduled"}, run'.checkpoint = [exec[h].batch EXCEPT ![c] = kept]
          PROVE  d \in Gated /\ \A e \in Before(d) : ops'[e].status = "succeeded"
      <4>1. run'.checkpoint[c] = kept /\ \A e \in Call \ {c} : run'.checkpoint[e] = held[e]
        BY <1>0, <3>2 DEF Execution, Batches
      <4>2. CASE d = c
        BY <1>3, <2>1, <3>2, <4>1, <4>2
      <4>3. CASE d # c
        BY <1>0, <1>1, <2>1, <4>1, <4>3, WaitsKept
      <4> QED
        BY <4>2, <4>3
    <3> QED
      BY <3>1, <3>2 DEF CallProceeds
  <2> QED
    BY <2>1 DEF WaitsFor, Succeeded, Before, SameStage
<1>6. ASSUME NEW d \in Call, exec'[h].batch[d] = "waiting", exec'[h].answers[d] \notin {"approved", "denied"}
      PROVE  run'.waits[d] = "absent"
  <2>1. held[d] = "waiting" => run.waits[d] = "absent"
    BY <1>1, <1>2, <1>6 DEF Unanswered
  <2> QED
    BY <1>0, <1>2, <1>3, <1>6, <2>1
<1> QED
  BY <1>4, <1>5, <1>6 DEF Asks, Unanswered

LEMMA StageEndAsks ==
    ASSUME OpsInv, FollowInv, OneWait, NEW h \in Hosts, Fenced(h), ~run.cancellationRequested,
           StageEnd(h)
    PROVE  Asks(h)' /\ WaitsFor(run.checkpoint)'
<1>0. /\ OpsTypeOK /\ exec \in [Hosts -> Execution] /\ exec[h] \in Execution /\ run \in StoredRun
      /\ exec[h].phase = "batch" /\ ops' = ops
  BY DEF OpsInv, OpsTypeOK, StageEnd
<1>1. /\ WaitsFor(exec[h].batch) /\ WaitsFor(run.checkpoint)
      /\ \A c \in Unanswered(h) : run.waits[c] = "absent"
  BY <1>0 DEF OneWait, Asks
<1>2. run'.waits = run.waits /\ run'.checkpoint \in {run.checkpoint, exec[h].batch}
  BY <1>0 DEF StageEnd, StoredRun
<1>3. WaitsFor(run.checkpoint)'
  BY <1>0, <1>1, <1>2 DEF WaitsFor, Succeeded, Before, SameStage
<1>4. CASE Leave(h) \/ exec' = To(h, "settling") \/ exec' = To(h, "completing")
  <2>1. exec'[h].phase \in {"leaving", "settling", "completing"}
    BY <1>0, <1>4 DEF Leave, To, Idle
  <2> QED
    BY <1>3, <2>1 DEF Asks
<1>5. CASE ~(Leave(h) \/ exec' = To(h, "settling") \/ exec' = To(h, "completing"))
  <2>1. \/ exec' = [exec EXCEPT ![h].phase = "suspending"]
        \/ \E next : exec' = [exec EXCEPT ![h].at = next]
    BY <1>5 DEF StageEnd
  <2>2. exec'[h].batch = exec[h].batch /\ exec'[h].answers = exec[h].answers
    BY <1>0, <2>1 DEF Execution
  <2>3. WaitsFor(exec[h].batch)'
    BY <1>0, <1>1, <2>2 DEF WaitsFor, Succeeded, Before, SameStage
  <2> QED
    BY <1>1, <1>2, <1>3, <2>2, <2>3 DEF Asks, Unanswered
<1> QED
  BY <1>4, <1>5

\* A suspension opens one wait.
LEMMA OneIsAsked ==
    ASSUME OneApproval, FollowInv, NEW h \in Hosts, Asks(h), exec[h].phase = "suspending",
           NEW c \in Unanswered(h), NEW d \in Unanswered(h)
    PROVE  c = d
<1>1. /\ c \in Call /\ d \in Call /\ c \in Gated /\ d \in Gated
      /\ run.waits[c] = "absent" /\ run.waits[d] = "absent"
      /\ \A e \in Before(c) \cup Before(d) : Succeeded(e)
  BY DEF Asks, WaitsFor, Unanswered
<1>2. \A e \in {c, d} : ~Succeeded(e)
  BY <1>1 DEF FollowInv, StartsInOrder, Succeeded
<1>3. ASSUME c # d PROVE c \in Before(d) \/ d \in Before(c)
  <2>1. ~SameStage(c, d) /\ ~SameStage(d, c)
    BY <1>1, <1>3 DEF OneApproval
  <2>2. c \in Nat /\ d \in Nat /\ c >= 1 /\ d >= 1
    BY <1>1, OperationsAssumption DEF Call
  <2> QED
    BY <1>3, <2>1, <2>2 DEF Before
<1> QED
  BY <1>1, <1>2, <1>3

LEMMA HostsAskOnce ==
    ASSUME OneApproval, OpsInv, FollowInv, OneWait, NEW h \in Hosts, HostStep(h) \/ HostFault(h)
    PROVE  OneWait'
<1>0. /\ OpsTypeOK /\ run \in StoredRun /\ Grows /\ HostChanges(h) /\ NoHost \notin Hosts
  BY HostsGrow, HostsChange, OperationsAssumption DEF OpsInv, OpsTypeOK, FollowInv
<1> SUFFICES ASSUME ~run'.cancellationRequested PROVE OneWait'
  BY DEF OneWait
<1>1. ~run.cancellationRequested
  BY <1>0 DEF HostChanges
<1> PICK kept : kept = run.checkpoint
  OBVIOUS
\* Nobody has the claim of a Run that waits.
<1>2. CASE \E c \in Call : run.waits[c] = "open"
  <2>1. run.status = "waiting" /\ run.owner = NoHost
    BY <1>1, <1>2 DEF OneWait, OpsInv, RunInv
  <2>2. run' = run /\ ops' = ops
    BY <1>0, <2>1 DEF HostChanges, Fenced
  <2> QED
    BY <1>0, <1>1, <2>1, <2>2 DEF OneWait, WaitsFor, Fenced, Succeeded, Before, SameStage
<1>3. CASE \A c \in Call : run.waits[c] # "open"
  <2>1. ASSUME NEW c \in Call
        PROVE  /\ run'.waits[c] # "cancelled"
               /\ run'.waits[c] = "open" => /\ exec[h].phase = "suspending" /\ Fenced(h)
                                            /\ c \in Unanswered(h) /\ run'.status = "waiting"
    BY <1>0, <1>1, <1>3 DEF HostChanges, OneWait
  <2>2. \A c, d \in Call : run'.waits[c] = "open" /\ run'.waits[d] = "open" => c = d
    BY <1>1, <2>1, OneIsAsked DEF OneWait
  <2>3. WaitsFor(run.checkpoint)'
    <3>1. CASE run'.checkpoint = run.checkpoint
      <4>1. WaitsFor(kept)
        BY <1>1 DEF OneWait
      <4> QED
        BY <1>0, <3>1, <4>1, WaitsKept DEF WaitsFor, Succeeded, Before, SameStage
    <3>2. CASE Fenced(h) /\ (CallStep(h) \/ StageEnd(h))
      BY <1>1, <3>2, CallAsks, StageEndAsks
    <3> QED
      BY <3>1, <3>2, SavedWhen DEF FollowInv
  <2>4. ASSUME NEW k \in Hosts, run'.owner = k PROVE Asks(k)'
    <3>1. CASE k = h
      <4>1. CASE HasBatch(h)'
        BY <1>1, <2>4, <3>1, <4>1, OwnPhase, LoadAsks, CallAsks, StageEndAsks DEF BatchStep
      <4>2. CASE ~HasBatch(h)'
        BY <3>1, <4>2 DEF HasBatch, Asks
      <4> QED
        BY <4>1, <4>2
    <3>2. CASE k # h
      <4>1. exec'[k] = exec[k] /\ run.owner = k
        BY <1>0, <2>4, <3>2 DEF HostChanges
      <4>2. run' = run /\ ops' = ops
        BY <1>0, <2>4, <3>2, <4>1 DEF HostChanges, Fenced
      <4>3. Asks(k)
        BY <1>1, <4>1 DEF OneWait, Fenced
      <4> QED
        BY <4>1, <4>2, <4>3 DEF Asks, WaitsFor, Unanswered, Succeeded, Before, SameStage
    <3> QED
      BY <3>1, <3>2
  <2> QED
    BY <2>1, <2>2, <2>3, <2>4 DEF OneWait, Fenced
<1> QED
  BY <1>2, <1>3

LEMMA CallersAskOnce ==
    ASSUME OpsInv, OneWait, OutsideStep
    PROVE  OneWait'
<1>0. /\ OpsTypeOK /\ run \in StoredRun /\ ops \in [Call -> Operation] /\ Grows /\ NoHost \notin Hosts
  BY CallersGrow, OperationsAssumption DEF OpsInv, OpsTypeOK
<1> SUFFICES ASSUME ~run'.cancellationRequested PROVE OneWait'
  BY DEF OneWait
<1>1. ~run.cancellationRequested
  BY <1>0 DEF Grows
<1> PICK kept : kept = run.checkpoint
  OBVIOUS
\* A caller that leaves no wait open and nobody the claim.
<1>2. ASSUME \A c \in Call : run'.waits[c] \notin {"cancelled", "open"}, run'.owner = NoHost,
             run'.checkpoint = run.checkpoint
      PROVE  OneWait'
  <2>1. WaitsFor(kept)
    BY <1>1 DEF OneWait
  <2>2. WaitsFor(run.checkpoint)'
    BY <1>0, <1>2, <2>1, WaitsKept DEF WaitsFor, Succeeded, Before, SameStage
  <2> QED
    BY <1>0, <1>2, <2>2 DEF OneWait, Fenced
<1>3. CASE Cancel
  BY <1>0, <1>3, Cancelling DEF Cancel
<1>4. ASSUME NEW c \in Call, Respond(c) PROVE OneWait'
  <2>1. /\ run.waits[c] = "open" /\ run'.waits[c] \in {"approved", "denied"}
        /\ run'.owner = run.owner /\ run'.checkpoint = run.checkpoint
        /\ \A d \in Call \ {c} : run'.waits[d] = run.waits[d]
    BY <1>0, <1>4 DEF Respond, StoredRun
  <2>2. run.owner = NoHost
    BY <1>1, <2>1 DEF OneWait, OpsInv, RunInv
  <2>3. \A d \in Call : run'.waits[d] \notin {"cancelled", "open"}
    BY <1>1, <2>1 DEF OneWait
  <2> QED
    BY <1>2, <2>1, <2>2, <2>3
<1>5. ASSUME NEW c \in Call, Resolve(c) PROVE OneWait'
  <2> PICK o \in [Call -> Operation], r \in StoredRun : Resolved(c, o, r) /\ ops' = o /\ run' = r
    BY <1>0, <1>1, <1>5, ResolutionTyped
  <2>1. run'.owner = NoHost /\ run'.waits = run.waits /\ run'.checkpoint = run.checkpoint
    BY DEF Resolved
  <2>2. \A d \in Call : run.waits[d] \notin {"cancelled", "open"}
    BY <1>1, <1>5 DEF OneWait, Resolve
  <2> QED
    BY <1>2, <2>1, <2>2
<1>6. ASSUME NEW c \in Call, OperatorRetry(c) PROVE OneWait'
  <2>1. run'.owner = NoHost /\ run'.waits = run.waits /\ run'.checkpoint = run.checkpoint
    BY <1>0, <1>6 DEF OperatorRetry, StoredRun
  <2>2. \A d \in Call : run.waits[d] \notin {"cancelled", "open"}
    BY <1>1, <1>6 DEF OneWait, OperatorRetry
  <2> QED
    BY <1>2, <2>1, <2>2
<1> QED
  BY <1>3, <1>4, <1>5, <1>6 DEF OutsideStep

LEMMA OneWaitInit == OpsInit => OneWait
BY OperationsAssumption DEF OpsInit, OneWait, WaitsFor, Fresh, Fenced

LEMMA OneWaitIsHeedful == OpsInv /\ UnknownInv /\ OneWait => Heedful
BY DEF OpsInv, RunInv, UnknownInv, UnknownShown, Escaped, OneWait, Heedful, Respond

\* Where no stage asks for two approvals, every response finds the known outcomes alone,
\* and an unknown outcome keeps its Run in needs-resolution whatever callers do.
THEOREM UnknownIsKeptByOneApproval ==
    ASSUME OneApproval
    PROVE  OpsSpec => []UnknownNeedsResolution
<1>1. OpsInv /\ FollowInv /\ OneWait /\ [OpsNext]_opsVars => OneWait'
  <2> SUFFICES ASSUME OpsInv, FollowInv, OneWait, [OpsNext]_opsVars PROVE OneWait'
    OBVIOUS
  <2>1. CASE UNCHANGED opsVars
    BY <2>1 DEF opsVars, OneWait, WaitsFor, Asks, Unanswered, Fenced, Succeeded, Before, SameStage
  <2>2. ASSUME NEW h \in Hosts, HostStep(h) \/ HostFault(h) PROVE OneWait'
    BY <2>2, HostsAskOnce
  <2> QED
    BY <2>1, <2>2, CallersAskOnce DEF OpsNext
<1>2. OpsInv /\ FollowInv /\ UnknownInv /\ OneWait /\ [OpsNext]_opsVars => UnknownInv'
  <2> SUFFICES ASSUME OpsInv, FollowInv, UnknownInv, Heedful, [OpsNext]_opsVars PROVE UnknownInv'
    BY OneWaitIsHeedful
  <2> QED
    BY UnknownStep DEF Heedful
<1> QED
  BY <1>1, <1>2, OpsInitInv, OpsInvKept, FollowInit, FollowInvKept, UnknownInit, UnknownIsNeeded,
     OneWaitInit, PTL DEF OpsSpec
=============================================================================
