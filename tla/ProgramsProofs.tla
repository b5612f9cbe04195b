---------------------------- MODULE ProgramsProofs ----------------------------
(***************************************************************************)
(* Proofs about Agent Programs for any set of operations, workers and      *)
(* approvals: that replaying the code never repeats or anticipates an      *)
(* effect (ProgramEffects), that the slots of concurrent calls are         *)
(* accounted for (SlotsAccounted), and that the states are well formed.    *)
(***************************************************************************)
EXTENDS Programs, FiniteSetTheorems, TLAPS

CallPhase == {"ready", "preparing", "dispatching", "performing", "performed",
              "unsettled", "returned", "failed", "suspended"}
OpStatus == {"absent", "succeeded", "failed", "unknown"} \cup Unsettled
WaitAnswer == {"approved", "denied"}

-----------------------------------------------------------------------------
(* The inductive invariant.                                                *)

\* A worker that owns the Run executes it; only an attempt that calls has calls
\* under way; an approved attempt was resumed by an approval; and nobody works on a
\* Run that has succeeded.
AttemptsInv ==
    \A w \in Worker :
        /\ Holds(w) => attempts[w].phase # "idle"
        /\ attempts[w].phase # "calling" => \A o \in ProgramOp : attempts[w].pc[o] = "ready"
        /\ attempts[w].approved => /\ attempts[w].suspension \in ProgramOp
                                   /\ program.waits[attempts[w].suspension] = "approved"
        /\ program.status = "succeeded" /\ Holds(w) => attempts[w].phase = "leaving"

\* The call of a worker that owns the Run has its operation reserved until it is
\* started, unless a cancellation has failed it; what it returned is recorded; and a
\* gated call goes on only when it has been approved.
CallsInv ==
    \A w \in Worker, o \in ProgramOp :
        LET pc == attempts[w].pc[o]
        IN  /\ pc = "preparing" /\ Holds(w) =>
                /\ program.ops[o] \in {"reserved", "failed"}
                /\ ~program.cancelled => program.ops[o] = "reserved"
            /\ pc = "returned" => program.ops[o] = "succeeded"
            /\ pc \in {"dispatching", "performing", "performed"} /\ o \in Approval =>
                program.waits[o] = "approved"
            /\ pc = "performed" => performed[o] > 0

\* What a recorded operation stands for.
OutcomesInv ==
    /\ \A o \in ProgramOp :
        /\ program.ops[o] = "running" /\ o \in Approval => program.waits[o] = "approved"
        /\ performed[o] > 0 /\ o \in Approval => program.waits[o] = "approved"
        /\ program.ops[o] = "succeeded" => performed[o] > 0 \/ program.resolved[o] = "recorded"
        /\ program.status = "succeeded" => program.ops[o] = "succeeded"
    /\ program.cancelled => program.status \notin {"succeeded", "failed"}

\* The attempts that will have the effect of an operation unless they are stopped.
Performers(o) ==
    {w \in Worker : \/ attempts[w].pc[o] = "performing"
                    \/ attempts[w].pc[o] = "dispatching" /\ Holds(w) /\ ~program.cancelled}
\* An operation that has not been started may be performed once more.
Unstarted(o) ==
    IF ~program.cancelled /\ program.ops[o] \in {"absent", "reserved", "waiting"} THEN 1 ELSE 0
Allowed(o) == IF program.resolved[o] = "retry" THEN 2 ELSE 1
PerformedInv ==
    \A o \in ProgramOp \ Idempotent :
        /\ IsFiniteSet(Performers(o))
        /\ Cardinality(Performers(o)) + performed[o] + Unstarted(o) <= Allowed(o)

UnsettledOps == {o \in ProgramOp : program.ops[o] \in Unsettled}
SlotsInv == IsFiniteSet(UnsettledOps) /\ SlotsAccounted

ProgramsInv ==
    /\ ProgramsTypeOK /\ AttemptsInv /\ CallsInv /\ OutcomesInv
    /\ PerformedInv /\ SlotsInv

-----------------------------------------------------------------------------
(* What the transitions of a stored Run do to its fields.                  *)

\* Settling an operation: settleProgramOperation.
LEMMA OpSettledFields ==
    ASSUME NEW P \in ProgramRun, NEW o \in ProgramOp, NEW status \in OpStatus
    PROVE  LET Q == OpSettled(P, o, status)
           IN  /\ Q \in ProgramRun
               /\ Q.ops = [P.ops EXCEPT ![o] = status]
               /\ Q.slots = IF P.slots = 0 THEN 0 ELSE P.slots - 1
               /\ Q.status = IF status = "unknown" THEN "needs-resolution" ELSE P.status
               /\ Q.owner = P.owner /\ Q.cancelled = P.cancelled
               /\ Q.suspension = P.suspension /\ Q.waits = P.waits
               /\ Q.resolved = P.resolved
  <1> DEFINE ops == [P.ops EXCEPT ![o] = status]
             slots == IF P.slots = 0 THEN 0 ELSE P.slots - 1
             stage == IF status = "unknown" THEN "needs-resolution" ELSE P.status
  <1>1. OpSettled(P, o, status) = [P EXCEPT !.ops = ops, !.slots = slots, !.status = stage]
    BY DEF OpSettled, ProgramRun
  <1>2. ops \in [ProgramOp -> OpStatus]
    BY DEF ProgramRun, OpStatus
  <1>3. slots \in Nat
    BY DEF ProgramRun
  <1>4. stage \in {"running", "cancelling", "waiting", "needs-resolution"} \cup ProgramEnds
    BY DEF ProgramRun
  <1> HIDE DEF ops, slots, stage
  <1>5. /\ OpSettled(P, o, status) \in ProgramRun
        /\ LET Q == OpSettled(P, o, status)
           IN  /\ Q.ops = ops /\ Q.slots = slots /\ Q.status = stage
               /\ Q.owner = P.owner /\ Q.cancelled = P.cancelled
               /\ Q.suspension = P.suspension /\ Q.waits = P.waits
               /\ Q.resolved = P.resolved
    BY <1>1, <1>2, <1>3, <1>4 DEF ProgramRun, OpStatus
  <1> QED BY <1>5 DEF ops, slots, stage

\* Reconciling a cancelled Run: reconcileProgramCancellation.
LEMMA ReconciledFields ==
    ASSUME NEW P \in ProgramRun
    PROVE  LET Q == ProgramReconciled(P)
           IN  /\ Q \in ProgramRun
               /\ \A o \in ProgramOp :
                    /\ Q.ops[o] = IF P.ops[o] \in Unsettled THEN "failed" ELSE P.ops[o]
                    /\ Q.waits[o] = IF P.waits[o] = "open" THEN "cancelled" ELSE P.waits[o]
               /\ Q.slots = 0 /\ Q.status = P.status
               /\ Q.owner = P.owner /\ Q.cancelled = P.cancelled
               /\ Q.suspension = P.suspension /\ Q.resolved = P.resolved
  BY DEF ProgramReconciled, ProgramRun, Unsettled

\* A Run suspends on an operation.
LEMMA SuspendedFields ==
    ASSUME NEW P \in ProgramRun, NEW o \in ProgramOp
    PROVE  LET Q == ProgramSuspended(P, o)
           IN  /\ Q \in ProgramRun
               /\ Q.waits = [P.waits EXCEPT ![o] = "open"]
               /\ Q.status = "waiting" /\ Q.owner = NoWorker /\ Q.suspension = o
               /\ Q.ops = P.ops /\ Q.slots = P.slots /\ Q.cancelled = P.cancelled
               /\ Q.resolved = P.resolved
  BY DEF ProgramSuspended, ProgramRun

\* A wait is answered: its operation is reserved again.
LEMMA AnsweredFields ==
    ASSUME NEW P \in ProgramRun, NEW o \in ProgramOp, NEW answer \in WaitAnswer
    PROVE  LET Q == Answered(P, o, answer)
           IN  /\ Q \in ProgramRun
               /\ Q.waits = [P.waits EXCEPT ![o] = answer]
               /\ \A q \in ProgramOp :
                    Q.ops[q] = IF q = o /\ P.ops[o] = "waiting" THEN "reserved" ELSE P.ops[q]
               /\ Q.status = "running" /\ Q.owner = P.owner /\ Q.suspension = P.suspension
               /\ Q.slots = P.slots /\ Q.cancelled = P.cancelled /\ Q.resolved = P.resolved
  BY DEF Answered, ProgramRun, Unsettled, WaitAnswer

\* A Run ends, unless a cancellation has to wait for a resolution.
LEMMA FinishedFields ==
    ASSUME NEW P \in ProgramRun, NEW outcome \in {"succeeded", "failed"}
    PROVE  LET Q == ProgramFinished(P, outcome)
           IN  /\ Q \in ProgramRun
               /\ Q.cancelled = P.cancelled /\ Q.resolved = P.resolved
               /\ Q.owner \in {P.owner, NoWorker}
               /\ ~P.cancelled => Q = [P EXCEPT !.status = outcome]
               /\ P.cancelled => Q.status \in {P.status, "cancelled"}
               /\ \A o \in ProgramOp :
                    /\ Q.ops[o] \in {P.ops[o], "failed"}
                    /\ Q.ops[o] # P.ops[o] => P.ops[o] \in Unsettled /\ P.cancelled
                    /\ Q.waits[o] \in {P.waits[o], "cancelled"}
                    /\ Q.waits[o] # P.waits[o] => P.waits[o] = "open"
  <1>1. CASE ~P.cancelled
    BY <1>1 DEF ProgramFinished, ProgramRun, ProgramEnds
  <1>2. CASE P.cancelled /\ Unresolved(P)
    BY <1>2 DEF ProgramFinished, ProgramRun
  <1>3. CASE P.cancelled /\ ~Unresolved(P)
    <2> DEFINE R == ProgramReconciled(P)
    <2>1. ProgramFinished(P, outcome) = [R EXCEPT !.status = "cancelled"]
      BY <1>3 DEF ProgramFinished
    <2>2. /\ R \in ProgramRun /\ R.cancelled = P.cancelled
          /\ R.resolved = P.resolved /\ R.owner = P.owner
          /\ \A o \in ProgramOp :
                /\ R.ops[o] = IF P.ops[o] \in Unsettled THEN "failed" ELSE P.ops[o]
                /\ R.waits[o] = IF P.waits[o] = "open" THEN "cancelled" ELSE P.waits[o]
      BY ReconciledFields
    <2> HIDE DEF R
    <2>3. LET Q == [R EXCEPT !.status = "cancelled"]
          IN  /\ Q \in ProgramRun /\ Q.status = "cancelled" /\ Q.owner = R.owner
              /\ Q.cancelled = R.cancelled /\ Q.resolved = R.resolved
              /\ Q.ops = R.ops /\ Q.waits = R.waits
      BY <2>2 DEF ProgramRun, ProgramEnds
    <2> DEFINE Q == [R EXCEPT !.status = "cancelled"]
    <2> HIDE DEF Q
    <2>4. /\ Q \in ProgramRun /\ Q.cancelled = P.cancelled
          /\ Q.resolved = P.resolved /\ Q.owner = P.owner /\ Q.status = "cancelled"
      BY <2>2, <2>3 DEF Q
    <2>5. \A o \in ProgramOp :
            /\ Q.ops[o] = IF P.ops[o] \in Unsettled THEN "failed" ELSE P.ops[o]
            /\ Q.waits[o] = IF P.waits[o] = "open" THEN "cancelled" ELSE P.waits[o]
      BY <2>2, <2>3 DEF Q
    <2>6. ProgramFinished(P, outcome) = Q
      BY <2>1 DEF Q
    <2> QED BY <1>3, <2>4, <2>5, <2>6
  <1> QED BY <1>1, <1>2, <1>3

\* A cancellation is accepted, or applied again.
LEMMA CancelledFields ==
    ASSUME NEW P \in ProgramRun
    PROVE  LET Q == ProgramCancelled(P)
           IN  /\ Q \in ProgramRun
               /\ Q.cancelled = TRUE /\ Q.resolved = P.resolved /\ Q.owner = P.owner
               /\ \/ Q.status \in {"cancelling", "cancelled", "needs-resolution"}
                  \/ P.cancelled /\ Q.status = P.status
               /\ \A o \in ProgramOp :
                    /\ Q.ops[o] = IF P.ops[o] \in Unsettled THEN "failed" ELSE P.ops[o]
                    /\ Q.waits[o] = IF P.waits[o] = "open" THEN "cancelled" ELSE P.waits[o]
  <1> DEFINE R == ProgramReconciled(P)
             stage == IF P.cancelled \/ R.status = "needs-resolution" THEN R.status
                      ELSE "cancelling"
             Q0 == [R EXCEPT !.cancelled = TRUE, !.status = stage]
  <1>1. ProgramCancelled(P) \in {Q0, [Q0 EXCEPT !.status = "cancelled"]}
    BY DEF ProgramCancelled
  <1>2. /\ R \in ProgramRun /\ R.status = P.status
        /\ R.resolved = P.resolved /\ R.owner = P.owner
        /\ \A o \in ProgramOp :
              /\ R.ops[o] = IF P.ops[o] \in Unsettled THEN "failed" ELSE P.ops[o]
              /\ R.waits[o] = IF P.waits[o] = "open" THEN "cancelled" ELSE P.waits[o]
    BY ReconciledFields
  <1> HIDE DEF R
  <1>3. /\ Q0 \in ProgramRun /\ Q0.status = stage /\ Q0.owner = R.owner
        /\ Q0.cancelled = TRUE /\ Q0.resolved = R.resolved
        /\ Q0.ops = R.ops /\ Q0.waits = R.waits
    BY <1>2 DEF ProgramRun, ProgramEnds
  <1>4. \/ stage \in {"cancelling", "needs-resolution"}
        \/ P.cancelled /\ stage = P.status
    BY <1>2
  <1> HIDE DEF Q0, stage
  <1>5. LET Q == [Q0 EXCEPT !.status = "cancelled"]
        IN  /\ Q \in ProgramRun /\ Q.status = "cancelled" /\ Q.owner = Q0.owner
            /\ Q.cancelled = Q0.cancelled /\ Q.resolved = Q0.resolved
            /\ Q.ops = Q0.ops /\ Q.waits = Q0.waits
    BY <1>3 DEF ProgramRun, ProgramEnds
  <1>6. CASE ProgramCancelled(P) = Q0
    BY <1>2, <1>3, <1>4, <1>6
  <1>7. CASE ProgramCancelled(P) = [Q0 EXCEPT !.status = "cancelled"]
    BY <1>2, <1>3, <1>5, <1>7
  <1> QED BY <1>1, <1>6, <1>7

-----------------------------------------------------------------------------
(* What the steps of an attempt do to the attempts.                        *)

\* A call of an attempt gets to another point.
LEMMA GoesFields ==
    ASSUME ProgramsTypeOK, NEW w \in Worker, NEW o \in ProgramOp, NEW pc \in CallPhase,
           Goes(w, o, pc)
    PROVE  /\ attempts' \in [Worker -> AttemptRecord]
           /\ \A v \in Worker :
                /\ attempts'[v].phase = attempts[v].phase
                /\ attempts'[v].suspension = attempts[v].suspension
                /\ attempts'[v].approved = attempts[v].approved
                /\ attempts'[v].denied = attempts[v].denied
                /\ \A q \in ProgramOp :
                    attempts'[v].pc[q] = IF v = w /\ q = o THEN pc ELSE attempts[v].pc[q]
<1> DEFINE A == attempts[w]
           B == [A EXCEPT !.pc = [A.pc EXCEPT ![o] = pc]]
<1>1. A \in AttemptRecord
  BY DEF ProgramsTypeOK
<1>2. attempts' = [attempts EXCEPT ![w] = B]
  BY DEF Goes
<1>3. /\ B \in AttemptRecord
      /\ B.phase = A.phase /\ B.suspension = A.suspension
      /\ B.approved = A.approved /\ B.denied = A.denied
      /\ \A q \in ProgramOp : B.pc[q] = IF q = o THEN pc ELSE A.pc[q]
  BY <1>1 DEF AttemptRecord, CallPhase
<1>4. attempts \in [Worker -> AttemptRecord]
  BY DEF ProgramsTypeOK
<1> HIDE DEF B
<1> QED BY <1>2, <1>3, <1>4

\* An attempt is given another record.
LEMMA AttemptFields ==
    ASSUME ProgramsTypeOK, NEW w \in Worker, NEW A \in AttemptRecord,
           attempts' = [attempts EXCEPT ![w] = A]
    PROVE  /\ attempts' \in [Worker -> AttemptRecord]
           /\ attempts'[w] = A
           /\ \A v \in Worker \ {w} : attempts'[v] = attempts[v]
  BY DEF ProgramsTypeOK

LEMMA NoAttemptTyped ==
    /\ NoAttempt \in AttemptRecord
    /\ NoAttempt.phase = "idle" /\ NoAttempt.approved = FALSE
    /\ \A o \in ProgramOp : NoAttempt.pc[o] = "ready"
  BY DEF NoAttempt, AttemptRecord

\* The attempt ends: nothing is left of its calls.
LEMMA QuitsFields ==
    ASSUME ProgramsTypeOK, NEW w \in Worker, Quits(w)
    PROVE  /\ attempts' \in [Worker -> AttemptRecord]
           /\ attempts'[w].phase = "leaving" /\ attempts'[w].approved = FALSE
           /\ \A o \in ProgramOp : attempts'[w].pc[o] = "ready"
           /\ \A v \in Worker \ {w} : attempts'[v] = attempts[v]
<1> DEFINE A == [NoAttempt EXCEPT !.phase = "leaving"]
<1>1. /\ A \in AttemptRecord
      /\ A.phase = "leaving" /\ A.approved = FALSE
      /\ \A o \in ProgramOp : A.pc[o] = "ready"
  BY NoAttemptTyped DEF AttemptRecord
<1>2. attempts' = [attempts EXCEPT ![w] = A]
  BY DEF Quits
<1> HIDE DEF A
<1> QED BY <1>1, <1>2, AttemptFields

\* A stage that leaves the calls as they are.
LEMMA PhaseFields ==
    ASSUME ProgramsTypeOK, NEW w \in Worker,
           NEW p \in {"idle", "loading", "calling", "failing", "leaving"},
           attempts' = [attempts EXCEPT ![w].phase = p]
    PROVE  /\ attempts' \in [Worker -> AttemptRecord]
           /\ attempts'[w].phase = p
           /\ attempts'[w].suspension = attempts[w].suspension
           /\ attempts'[w].approved = attempts[w].approved
           /\ attempts'[w].pc = attempts[w].pc
           /\ \A v \in Worker \ {w} : attempts'[v] = attempts[v]
  BY DEF ProgramsTypeOK, AttemptRecord

-----------------------------------------------------------------------------
(* Steps by what they mean for the invariant.                              *)

\* Who may still perform an operation only changes with the calls of the workers.
LEMMA PerformedKept ==
    ASSUME NEW o \in ProgramOp \ Idempotent,
           ProgramsTypeOK, ProgramsTypeOK', PerformedInv,
           Performers(o)' \subseteq Performers(o),
           performed'[o] = performed[o],
           program'.resolved[o] = program.resolved[o],
           Unstarted(o)' <= Unstarted(o)
    PROVE  /\ IsFiniteSet(Performers(o)')
           /\ Cardinality(Performers(o)') + performed'[o] + Unstarted(o)' <= Allowed(o)'
<1>1. IsFiniteSet(Performers(o)) /\ IsFiniteSet(Performers(o)')
  BY FS_Subset DEF PerformedInv
<1>2. /\ Cardinality(Performers(o)') <= Cardinality(Performers(o))
      /\ Cardinality(Performers(o)') \in Nat /\ Cardinality(Performers(o)) \in Nat
  BY <1>1, FS_Subset, FS_CardinalityType
<1>3. /\ performed[o] \in Nat /\ performed'[o] \in Nat
      /\ Unstarted(o) \in Nat /\ Unstarted(o)' \in Nat
      /\ Allowed(o) \in Nat /\ Allowed(o)' = Allowed(o)
  BY DEF ProgramsTypeOK, Unstarted, Allowed
<1>4. Cardinality(Performers(o)) + performed[o] + Unstarted(o) <= Allowed(o)
  BY DEF PerformedInv
<1> HIDE DEF Performers, Unstarted, Allowed
<1> QED BY <1>1, <1>2, <1>3, <1>4

\* The slots are right as long as neither they nor the unsettled operations change.
LEMMA SlotsKept ==
    ASSUME ProgramsTypeOK, SlotsInv, UnsettledOps' = UnsettledOps,
           program'.slots = program.slots \/ program'.cancelled,
           program.cancelled => program'.cancelled,
           \A o \in ProgramOp : program.resolved[o] = "retry" => program'.resolved[o] = "retry"
    PROVE  SlotsInv'
  BY DEF SlotsInv, SlotsAccounted, UnsettledOps

-----------------------------------------------------------------------------
(* Every step keeps the invariant: the calls.                              *)

\* A call moves on without a command to the store.
LEMMA MovesKeeps ==
    ASSUME ProgramsInv, NEW w \in Worker, NEW o \in ProgramOp, NEW pc \in CallPhase,
           Goes(w, o, pc), attempts[w].phase = "calling",
           UNCHANGED <<program, performed, programFaults>>,
           pc = "preparing" => program.ops[o] = "reserved", pc # "performed",
           pc = "returned" => program.ops[o] = "succeeded",
           pc \in {"dispatching", "performing"} /\ o \in Approval => program.waits[o] = "approved",
           pc \in {"dispatching", "performing"} => w \in Performers(o) \/ o \in Idempotent
    PROVE  ProgramsInv'
<1>1. /\ attempts' \in [Worker -> AttemptRecord]
      /\ \A v \in Worker :
           /\ attempts'[v].phase = attempts[v].phase
           /\ attempts'[v].suspension = attempts[v].suspension
           /\ attempts'[v].approved = attempts[v].approved
           /\ \A q \in ProgramOp :
               attempts'[v].pc[q] = IF v = w /\ q = o THEN pc ELSE attempts[v].pc[q]
  BY GoesFields DEF ProgramsInv
<1>2. ProgramsTypeOK'
  BY <1>1 DEF ProgramsInv, ProgramsTypeOK
<1>3. AttemptsInv'
  BY <1>1 DEF ProgramsInv, AttemptsInv, Holds
<1>4. CallsInv'
  BY <1>1 DEF ProgramsInv, CallsInv, Holds
<1>5. OutcomesInv'
  BY DEF ProgramsInv, OutcomesInv
<1>6. PerformedInv'
  <2> SUFFICES ASSUME NEW q \in ProgramOp \ Idempotent
               PROVE  /\ IsFiniteSet(Performers(q)')
                      /\ Cardinality(Performers(q)') + performed'[q] + Unstarted(q)'
                            <= Allowed(q)'
    BY DEF PerformedInv
  <2>1. Performers(q)' \subseteq Performers(q)
    BY <1>1 DEF Performers, Holds
  <2>2. Unstarted(q)' = Unstarted(q) /\ Unstarted(q) \in Nat
    BY DEF Unstarted
  <2> QED BY <2>1, <2>2, <1>2, PerformedKept DEF ProgramsInv
<1>7. SlotsInv'
  BY DEF ProgramsInv, SlotsInv, SlotsAccounted, UnsettledOps
<1> QED BY <1>2, <1>3, <1>4, <1>5, <1>6, <1>7 DEF ProgramsInv

\* A call fails.
LEMMA FailsKeeps ==
    ASSUME ProgramsInv, NEW w \in Worker, NEW o \in ProgramOp,
           Goes(w, o, "failed"), attempts[w].phase = "calling",
           UNCHANGED <<program, performed, programFaults>>
    PROVE  ProgramsInv'
  BY MovesKeeps DEF CallPhase

\* The outcome of a call is settled.
LEMMA SettlesKeeps ==
    ASSUME ProgramsInv, NEW w \in Worker, NEW o \in ProgramOp,
           NEW status \in {"succeeded", "failed", "unknown"}, NEW pc \in {"returned", "failed"},
           Settles(w, o, status, pc), attempts[w].phase = "calling",
           pc = "returned" => status = "succeeded",
           status = "succeeded" => performed[o] > 0,
           UNCHANGED <<performed, programFaults>>
    PROVE  ProgramsInv'
<1>1. CASE Goes(w, o, "failed") /\ UNCHANGED program
  BY <1>1, FailsKeeps
<1>2. CASE /\ Holds(w) /\ program.ops[o] \in Unsettled
           /\ Goes(w, o, pc) /\ program' = OpSettled(program, o, status)
  <2>1. /\ attempts' \in [Worker -> AttemptRecord]
        /\ \A v \in Worker :
             /\ attempts'[v].phase = attempts[v].phase
             /\ attempts'[v].suspension = attempts[v].suspension
             /\ attempts'[v].approved = attempts[v].approved
             /\ \A q \in ProgramOp :
                 attempts'[v].pc[q] = IF v = w /\ q = o THEN pc ELSE attempts[v].pc[q]
    BY <1>2, GoesFields DEF ProgramsInv, CallPhase
  <2>2. /\ program' \in ProgramRun
        /\ program'.ops = [program.ops EXCEPT ![o] = status]
        /\ program'.slots = IF program.slots = 0 THEN 0 ELSE program.slots - 1
        /\ program'.status = IF status = "unknown" THEN "needs-resolution" ELSE program.status
        /\ program'.owner = program.owner /\ program'.cancelled = program.cancelled
        /\ program'.suspension = program.suspension /\ program'.waits = program.waits
        /\ program'.resolved = program.resolved
    <3>1. program \in ProgramRun /\ status \in OpStatus
      BY DEF ProgramsInv, ProgramsTypeOK, OpStatus
    <3> QED BY <1>2, <3>1, OpSettledFields
  <2>3. ProgramsTypeOK'
    BY <2>1, <2>2 DEF ProgramsInv, ProgramsTypeOK
  <2>4. /\ program.ops \in [ProgramOp -> OpStatus]
        /\ program.slots \in Nat
        /\ \A q \in ProgramOp : program'.ops[q] = IF q = o THEN status ELSE program.ops[q]
        /\ program.ops[o] \in {"reserved", "running", "waiting"}
    BY <1>2, <2>2 DEF ProgramsInv, ProgramsTypeOK, ProgramRun, OpStatus, Unsettled
  <2>5. AttemptsInv'
    BY <2>1, <2>2 DEF ProgramsInv, AttemptsInv, Holds
  <2>6. CallsInv'
    BY <2>1, <2>2, <2>4, <1>2 DEF ProgramsInv, CallsInv, Holds
  <2>7. program.status # "succeeded"
    BY <1>2 DEF ProgramsInv, AttemptsInv
  <2>8. OutcomesInv'
    BY <2>2, <2>4, <2>7 DEF ProgramsInv, OutcomesInv
  <2>9. PerformedInv'
    <3> SUFFICES ASSUME NEW q \in ProgramOp \ Idempotent
                 PROVE  /\ IsFiniteSet(Performers(q)')
                        /\ Cardinality(Performers(q)') + performed'[q] + Unstarted(q)'
                              <= Allowed(q)'
      BY DEF PerformedInv
    <3>1. Performers(q)' \subseteq Performers(q)
      BY <2>1, <2>2 DEF Performers, Holds
    <3>2. Unstarted(q)' <= Unstarted(q)
      BY <2>2, <2>4 DEF Unstarted
    <3> QED BY <3>1, <3>2, <2>2, <2>3, PerformedKept DEF ProgramsInv
  <2>10. SlotsInv'
    <3>1. /\ UnsettledOps' = UnsettledOps \ {o} /\ o \in UnsettledOps
      BY <2>4, <1>2 DEF UnsettledOps, Unsettled
    <3>2. /\ IsFiniteSet(UnsettledOps') /\ IsFiniteSet(UnsettledOps)
          /\ Cardinality(UnsettledOps') = Cardinality(UnsettledOps) - 1
          /\ Cardinality(UnsettledOps) \in Nat /\ Cardinality(UnsettledOps') \in Nat
      BY <3>1, FS_RemoveElement, FS_CardinalityType DEF ProgramsInv, SlotsInv
    <3>3. CASE program.slots = Cardinality(UnsettledOps)
      <4>1. program'.slots = Cardinality(UnsettledOps')
        BY <3>2, <3>3, <2>2, <2>4
      <4> QED BY <4>1, <3>2 DEF SlotsInv, SlotsAccounted, UnsettledOps
    <3>4. CASE program.cancelled \/ \E q \in ProgramOp : program.resolved[q] = "retry"
      BY <3>4, <3>2, <2>2 DEF SlotsInv, SlotsAccounted
    <3> QED BY <3>3, <3>4 DEF ProgramsInv, SlotsInv, SlotsAccounted, UnsettledOps
  <2> QED BY <2>3, <2>5, <2>6, <2>8, <2>9, <2>10 DEF ProgramsInv
<1> QED BY <1>1, <1>2 DEF Settles

\* Deny, ReturnCall, FailCall and SettleUnknown.
LEMMA SettlementsKeep ==
    ASSUME ProgramsInv, NEW w \in Worker, NEW o \in ProgramOp,
           Deny(w, o) \/ ReturnCall(w, o) \/ FailCall(w, o) \/ SettleUnknown(w, o)
    PROVE  ProgramsInv'
<1>1. CASE Deny(w, o)
  BY <1>1, SettlesKeeps DEF Deny, InCalls
<1>2. CASE ReturnCall(w, o)
  BY <1>2, SettlesKeeps DEF ReturnCall, InCalls, ProgramsInv, CallsInv
<1>3. CASE FailCall(w, o)
  BY <1>3, SettlesKeeps DEF FailCall, InCalls
<1>4. CASE SettleUnknown(w, o)
  BY <1>4, SettlesKeeps DEF SettleUnknown, InCalls
<1> QED BY <1>1, <1>2, <1>3, <1>4

\* A call reserves its operation, or finds it reserved or settled.
LEMMA ReserveKeeps ==
    ASSUME ProgramsInv, NEW w \in Worker, NEW o \in ProgramOp, Reserve(w, o)
    PROVE  ProgramsInv'
<1>1. /\ program \in ProgramRun /\ attempts[w].phase = "calling"
      /\ UNCHANGED <<performed, programFaults>>
  BY DEF Reserve, InCalls, ProgramsInv, ProgramsTypeOK
<1>2. CASE Goes(w, o, "failed") /\ UNCHANGED program
  BY <1>1, <1>2, FailsKeeps
<1>3. CASE /\ Holds(w) /\ program.ops[o] # "absent"
           /\ Goes(w, o, AfterReservation(w, o)) /\ UNCHANGED program
  <2>1. AfterReservation(w, o) \in CallPhase
    BY DEF AfterReservation, CallPhase
  <2>2. /\ AfterReservation(w, o) = "preparing" => program.ops[o] = "reserved"
        /\ AfterReservation(w, o) = "returned" => program.ops[o] = "succeeded"
        /\ AfterReservation(w, o) \notin {"performed", "performing"}
        /\ AfterReservation(w, o) = "dispatching" =>
              program.ops[o] = "running" /\ o \in Idempotent
    BY <1>3 DEF AfterReservation
  <2>3. program.ops[o] = "running" /\ o \in Approval => program.waits[o] = "approved"
    BY DEF ProgramsInv, OutcomesInv
  <2> QED BY <1>1, <1>3, <2>1, <2>2, <2>3, MovesKeeps
<1>4. CASE /\ Holds(w) /\ ~HasProgramEnded /\ program.ops[o] = "absent"
           /\ Goes(w, o, AfterReservation(w, o))
           /\ program' = [program EXCEPT !.ops[o] = "reserved", !.slots = @ + 1]
  <2>1. AfterReservation(w, o) = "preparing"
    BY <1>4 DEF AfterReservation
  <2>2. /\ attempts' \in [Worker -> AttemptRecord]
        /\ \A v \in Worker :
             /\ attempts'[v].phase = attempts[v].phase
             /\ attempts'[v].suspension = attempts[v].suspension
             /\ attempts'[v].approved = attempts[v].approved
             /\ \A q \in ProgramOp :
                 attempts'[v].pc[q] = IF v = w /\ q = o THEN "preparing" ELSE attempts[v].pc[q]
    BY <1>4, <2>1, GoesFields DEF ProgramsInv, CallPhase
  <2>3. /\ program' \in ProgramRun
        /\ \A q \in ProgramOp :
              program'.ops[q] = IF q = o THEN "reserved" ELSE program.ops[q]
        /\ program'.slots = program.slots + 1
        /\ program'.status = program.status
        /\ program'.owner = program.owner /\ program'.cancelled = program.cancelled
        /\ program'.suspension = program.suspension /\ program'.waits = program.waits
        /\ program'.resolved = program.resolved
    <3> DEFINE ops == [program.ops EXCEPT ![o] = "reserved"]
               slots == program.slots + 1
    <3>1. program' = [program EXCEPT !.ops = ops, !.slots = slots]
      BY <1>1, <1>4 DEF ProgramRun
    <3>2. /\ ops \in [ProgramOp -> OpStatus]
          /\ \A q \in ProgramOp : ops[q] = IF q = o THEN "reserved" ELSE program.ops[q]
      BY <1>1 DEF ProgramRun, OpStatus, Unsettled
    <3>3. slots \in Nat /\ slots = program.slots + 1
      BY <1>1 DEF ProgramRun
    <3> HIDE DEF ops, slots
    <3> QED BY <1>1, <3>1, <3>2, <3>3 DEF ProgramRun, OpStatus
  <2>4. ProgramsTypeOK'
    BY <1>1, <2>2, <2>3 DEF ProgramsInv, ProgramsTypeOK
  <2>5. program.status # "succeeded"
    BY <1>4 DEF HasProgramEnded, ProgramEnds
  <2>6. AttemptsInv'
    BY <1>1, <2>2, <2>3 DEF ProgramsInv, AttemptsInv, Holds
  <2>7. CallsInv'
    BY <1>1, <1>4, <2>2, <2>3 DEF ProgramsInv, CallsInv, Holds
  <2>8. OutcomesInv'
    BY <1>1, <2>3, <2>5 DEF ProgramsInv, OutcomesInv
  <2>9. PerformedInv'
    <3> SUFFICES ASSUME NEW q \in ProgramOp \ Idempotent
                 PROVE  /\ IsFiniteSet(Performers(q)')
                        /\ Cardinality(Performers(q)') + performed'[q] + Unstarted(q)'
                              <= Allowed(q)'
      BY DEF PerformedInv
    <3>1. Performers(q)' \subseteq Performers(q)
      BY <2>2, <2>3 DEF Performers, Holds
    <3>2. Unstarted(q)' <= Unstarted(q)
      BY <1>4, <2>3 DEF Unstarted
    <3> QED BY <1>1, <2>3, <2>4, <3>1, <3>2, PerformedKept DEF ProgramsInv
  <2>10. SlotsInv'
    <3>1. UnsettledOps' = UnsettledOps \cup {o} /\ o \notin UnsettledOps
      BY <1>4, <2>3 DEF UnsettledOps, Unsettled
    <3>2. /\ IsFiniteSet(UnsettledOps')
          /\ Cardinality(UnsettledOps') = Cardinality(UnsettledOps) + 1
      BY <3>1, FS_AddElement DEF ProgramsInv, SlotsInv
    <3> QED BY <2>3, <3>2 DEF ProgramsInv, SlotsInv, SlotsAccounted, UnsettledOps
  <2> QED BY <2>4, <2>6, <2>7, <2>8, <2>9, <2>10 DEF ProgramsInv
<1> QED BY <1>2, <1>3, <1>4 DEF Reserve

\* The check before the handler lets a worker through that may perform the call.
LEMMA DispatchKeeps ==
    ASSUME ProgramsInv, NEW w \in Worker, NEW o \in ProgramOp, Dispatch(w, o)
    PROVE  ProgramsInv'
<1> DEFINE pc == IF Holds(w) /\ ~program.cancelled THEN "performing" ELSE "failed"
<1>1. /\ Goes(w, o, pc) /\ UNCHANGED <<program, performed, programFaults>>
      /\ attempts[w].phase = "calling" /\ attempts[w].pc[o] = "dispatching"
  BY DEF Dispatch, InCalls
<1>2. pc \in CallPhase /\ pc \in {"performing", "failed"}
  BY DEF CallPhase
<1>3. pc = "performing" => w \in Performers(o)
  BY <1>1 DEF Performers
<1>4. o \in Approval => program.waits[o] = "approved"
  BY <1>1 DEF ProgramsInv, CallsInv
<1> HIDE DEF pc
<1> QED BY <1>1, <1>2, <1>3, <1>4, MovesKeeps

\* The effect takes place: the worker was counted as one that would perform it.
LEMMA PerformKeeps ==
    ASSUME ProgramsInv, NEW w \in Worker, NEW o \in ProgramOp, PerformCall(w, o)
    PROVE  ProgramsInv'
<1>1. /\ attempts[w].phase = "calling" /\ attempts[w].pc[o] = "performing"
      /\ Goes(w, o, "performed") /\ performed' = [performed EXCEPT ![o] = @ + 1]
      /\ UNCHANGED <<program, programFaults>>
  BY DEF PerformCall, InCalls
<1>2. /\ attempts' \in [Worker -> AttemptRecord]
      /\ \A v \in Worker :
           /\ attempts'[v].phase = attempts[v].phase
           /\ attempts'[v].suspension = attempts[v].suspension
           /\ attempts'[v].approved = attempts[v].approved
           /\ \A q \in ProgramOp :
               attempts'[v].pc[q] = IF v = w /\ q = o THEN "performed" ELSE attempts[v].pc[q]
  BY <1>1, GoesFields DEF ProgramsInv, CallPhase
<1>3. /\ performed \in [ProgramOp -> Nat] /\ performed' \in [ProgramOp -> Nat]
      /\ \A q \in ProgramOp : performed'[q] = IF q = o THEN performed[o] + 1 ELSE performed[q]
  BY <1>1 DEF ProgramsInv, ProgramsTypeOK
<1>4. ProgramsTypeOK'
  BY <1>1, <1>2, <1>3 DEF ProgramsInv, ProgramsTypeOK
<1>5. AttemptsInv'
  BY <1>1, <1>2 DEF ProgramsInv, AttemptsInv, Holds
<1>6. CallsInv'
  BY <1>1, <1>2, <1>3 DEF ProgramsInv, CallsInv, Holds
<1>7. OutcomesInv'
  <2>1. o \in Approval => program.waits[o] = "approved"
    BY <1>1 DEF ProgramsInv, CallsInv
  <2> QED BY <1>1, <1>3, <2>1 DEF ProgramsInv, OutcomesInv
<1>8. PerformedInv'
  <2> SUFFICES ASSUME NEW q \in ProgramOp \ Idempotent
               PROVE  /\ IsFiniteSet(Performers(q)')
                      /\ Cardinality(Performers(q)') + performed'[q] + Unstarted(q)'
                            <= Allowed(q)'
    BY DEF PerformedInv
  <2>1. CASE q # o
    <3>1. Performers(q)' \subseteq Performers(q) /\ performed'[q] = performed[q]
      BY <1>1, <1>2, <1>3, <2>1 DEF Performers, Holds
    <3>2. Unstarted(q)' = Unstarted(q) /\ Unstarted(q) \in Nat
      BY <1>1 DEF Unstarted
    <3> QED BY <1>1, <1>4, <3>1, <3>2, PerformedKept DEF ProgramsInv
  <2>2. CASE q = o
    <3>1. Performers(o)' = Performers(o) \ {w} /\ w \in Performers(o)
      BY <1>1, <1>2 DEF Performers, Holds
    <3>2. /\ IsFiniteSet(Performers(o)') /\ IsFiniteSet(Performers(o))
          /\ Cardinality(Performers(o)') = Cardinality(Performers(o)) - 1
          /\ Cardinality(Performers(o)) \in Nat
      BY <2>2, <3>1, FS_RemoveElement, FS_CardinalityType DEF ProgramsInv, PerformedInv
    <3>3. /\ Unstarted(o)' = Unstarted(o) /\ Allowed(o)' = Allowed(o)
          /\ Unstarted(o) \in Nat /\ Allowed(o) \in Nat
      BY <1>1 DEF Unstarted, Allowed
    <3>4. Cardinality(Performers(o)) + performed[o] + Unstarted(o) <= Allowed(o)
      BY <2>2 DEF ProgramsInv, PerformedInv
    <3> QED BY <1>3, <2>2, <3>2, <3>3, <3>4
  <2> QED BY <2>1, <2>2
<1>9. SlotsInv'
  BY <1>1 DEF ProgramsInv, SlotsInv, SlotsAccounted, UnsettledOps
<1> QED BY <1>4, <1>5, <1>6, <1>7, <1>8, <1>9 DEF ProgramsInv

\* A call that needs an approval suspends the Run.
LEMMA SuspendKeeps ==
    ASSUME ProgramsAssumption, ProgramsInv, NEW w \in Worker, NEW o \in ProgramOp,
           SuspendCall(w, o)
    PROVE  ProgramsInv'
<1>1. /\ program \in ProgramRun /\ attempts[w].phase = "calling"
      /\ attempts[w].pc[o] = "preparing"
      /\ UNCHANGED <<performed, programFaults>>
  BY DEF SuspendCall, InCalls, ProgramsInv, ProgramsTypeOK
<1>2. CASE Goes(w, o, "failed") /\ UNCHANGED program
  BY <1>1, <1>2, FailsKeeps
<1>3. CASE /\ Holds(w) /\ ~HasProgramEnded /\ Reopens(program, o)
           /\ Goes(w, o, "suspended")
           /\ program' = [ProgramSuspended(program, o) EXCEPT !.ops[o] = "waiting"]
  <2>1. /\ attempts' \in [Worker -> AttemptRecord]
        /\ \A v \in Worker :
             /\ attempts'[v].phase = attempts[v].phase
             /\ attempts'[v].suspension = attempts[v].suspension
             /\ attempts'[v].approved = attempts[v].approved
             /\ \A q \in ProgramOp :
                 attempts'[v].pc[q] = IF v = w /\ q = o THEN "suspended" ELSE attempts[v].pc[q]
    BY <1>3, GoesFields DEF ProgramsInv, CallPhase
  <2>2. /\ program' \in ProgramRun
        /\ \A q \in ProgramOp :
              /\ program'.ops[q] = IF q = o THEN "waiting" ELSE program.ops[q]
              /\ program'.waits[q] = IF q = o THEN "open" ELSE program.waits[q]
        /\ program'.slots = program.slots
        /\ program'.status = "waiting" /\ program'.owner = NoWorker
        /\ program'.cancelled = program.cancelled
        /\ program'.resolved = program.resolved
    <3> DEFINE S == ProgramSuspended(program, o)
               ops == [S.ops EXCEPT ![o] = "waiting"]
    <3>1. /\ S \in ProgramRun /\ S.waits = [program.waits EXCEPT ![o] = "open"]
          /\ S.status = "waiting" /\ S.owner = NoWorker
          /\ S.ops = program.ops /\ S.slots = program.slots
          /\ S.cancelled = program.cancelled /\ S.resolved = program.resolved
      BY <1>1, SuspendedFields
    <3>2. program' = [S EXCEPT !.ops = ops]
      BY <1>3
    <3> HIDE DEF S
    <3>3. /\ ops \in [ProgramOp -> OpStatus]
          /\ \A q \in ProgramOp : ops[q] = IF q = o THEN "waiting" ELSE program.ops[q]
      BY <1>1, <3>1 DEF ProgramRun, OpStatus, Unsettled
    <3>4. \A q \in ProgramOp : S.waits[q] = IF q = o THEN "open" ELSE program.waits[q]
      BY <1>1, <3>1 DEF ProgramRun
    <3> HIDE DEF ops
    <3> QED BY <3>1, <3>2, <3>3, <3>4 DEF ProgramRun, OpStatus
  <2>3. \A v \in Worker : ~Holds(v)'
    BY <2>2 DEF Holds, ProgramsAssumption
  <2>4. /\ program.ops[o] \in {"reserved", "failed"}
        /\ ~program.cancelled => program.ops[o] = "reserved"
        /\ program.waits[o] # "approved"
    BY <1>1, <1>3 DEF ProgramsInv, CallsInv, Reopens
  <2>5. ProgramsTypeOK'
    BY <1>1, <2>1, <2>2 DEF ProgramsInv, ProgramsTypeOK
  <2>6. AttemptsInv'
    BY <1>1, <2>1, <2>2, <2>3, <2>4 DEF ProgramsInv, AttemptsInv
  <2>7. CallsInv'
    BY <1>1, <2>1, <2>2, <2>3, <2>4 DEF ProgramsInv, CallsInv
  <2>8. OutcomesInv'
    BY <1>1, <2>2, <2>4 DEF ProgramsInv, OutcomesInv
  <2>9. PerformedInv'
    <3> SUFFICES ASSUME NEW q \in ProgramOp \ Idempotent
                 PROVE  /\ IsFiniteSet(Performers(q)')
                        /\ Cardinality(Performers(q)') + performed'[q] + Unstarted(q)'
                              <= Allowed(q)'
      BY DEF PerformedInv
    <3>1. Performers(q)' \subseteq Performers(q)
      BY <2>1, <2>3 DEF Performers
    <3>2. Unstarted(q)' = Unstarted(q) /\ Unstarted(q) \in Nat
      BY <2>2, <2>4 DEF Unstarted
    <3> QED BY <1>1, <2>2, <2>5, <3>1, <3>2, PerformedKept DEF ProgramsInv
  <2>10. SlotsInv'
    <3>1. CASE program.cancelled
      <4>1. UnsettledOps' = UnsettledOps \cup {o}
        BY <2>2 DEF UnsettledOps, Unsettled
      <4>2. IsFiniteSet(UnsettledOps')
        BY <4>1, FS_AddElement DEF ProgramsInv, SlotsInv
      <4> QED BY <2>2, <3>1, <4>2 DEF SlotsInv, SlotsAccounted
    <3>2. CASE ~program.cancelled
      <4>1. UnsettledOps' = UnsettledOps
        BY <2>2, <2>4, <3>2 DEF UnsettledOps, Unsettled
      <4> QED BY <2>2, <4>1, SlotsKept DEF ProgramsInv
    <3> QED BY <3>1, <3>2
  <2> QED BY <2>5, <2>6, <2>7, <2>8, <2>9, <2>10 DEF ProgramsInv
<1> QED BY <1>2, <1>3 DEF SuspendCall

\* An authorized call starts: from now on its worker may have the effect.
LEMMA StartKeeps ==
    ASSUME ProgramsInv, NEW w \in Worker, NEW o \in ProgramOp, StartCall(w, o)
    PROVE  ProgramsInv'
<1>1. /\ program \in ProgramRun /\ attempts[w].phase = "calling"
      /\ attempts[w].pc[o] = "preparing" /\ MayRun(w, o)
      /\ UNCHANGED <<performed, programFaults>>
  BY DEF StartCall, InCalls, ProgramsInv, ProgramsTypeOK
<1>2. CASE Goes(w, o, "failed") /\ UNCHANGED program
  BY <1>1, <1>2, FailsKeeps
<1>3. CASE /\ Holds(w) /\ Goes(w, o, "dispatching")
           /\ program' = [program EXCEPT !.ops[o] = IF @ = "reserved" THEN "running" ELSE @]
  <2> DEFINE started == IF program.ops[o] = "reserved" THEN "running" ELSE program.ops[o]
  <2>1. /\ attempts' \in [Worker -> AttemptRecord]
        /\ \A v \in Worker :
             /\ attempts'[v].phase = attempts[v].phase
             /\ attempts'[v].suspension = attempts[v].suspension
             /\ attempts'[v].approved = attempts[v].approved
             /\ \A q \in ProgramOp :
                 attempts'[v].pc[q] = IF v = w /\ q = o THEN "dispatching" ELSE attempts[v].pc[q]
    BY <1>3, GoesFields DEF ProgramsInv, CallPhase
  <2>2. /\ program' \in ProgramRun
        /\ \A q \in ProgramOp : program'.ops[q] = IF q = o THEN started ELSE program.ops[q]
        /\ program'.slots = program.slots
        /\ program'.status = program.status /\ program'.owner = program.owner
        /\ program'.cancelled = program.cancelled /\ program'.waits = program.waits
        /\ program'.resolved = program.resolved
    <3> DEFINE ops == [program.ops EXCEPT ![o] = started]
    <3>1. program' = [program EXCEPT !.ops = ops]
      BY <1>1, <1>3 DEF ProgramRun
    <3>2. /\ ops \in [ProgramOp -> OpStatus]
          /\ \A q \in ProgramOp : ops[q] = IF q = o THEN started ELSE program.ops[q]
      BY <1>1 DEF ProgramRun, OpStatus, Unsettled
    <3> HIDE DEF ops, started
    <3> QED BY <1>1, <3>1, <3>2 DEF ProgramRun, OpStatus
  <2>3. /\ started \in {"running", "failed"}
        /\ ~program.cancelled => program.ops[o] = "reserved" /\ started = "running"
        /\ started = "failed" => program.ops[o] = "failed"
        /\ program.ops[o] \in {"reserved", "failed"}
    BY <1>1, <1>3 DEF ProgramsInv, CallsInv
  <2>4. o \in Approval => program.waits[o] = "approved"
    BY <1>1 DEF ProgramsInv, AttemptsInv, MayRun
  <2> HIDE DEF started
  <2>5. ProgramsTypeOK'
    BY <1>1, <2>1, <2>2 DEF ProgramsInv, ProgramsTypeOK
  <2>6. AttemptsInv'
    BY <1>1, <2>1, <2>2 DEF ProgramsInv, AttemptsInv, Holds
  <2>7. CallsInv'
    BY <1>1, <1>3, <2>1, <2>2, <2>3, <2>4 DEF ProgramsInv, CallsInv, Holds
  <2>8. program.status # "succeeded"
    BY <1>1, <1>3 DEF ProgramsInv, AttemptsInv
  <2>9. OutcomesInv'
    BY <1>1, <2>2, <2>3, <2>4, <2>8 DEF ProgramsInv, OutcomesInv
  <2>10. PerformedInv'
    <3> SUFFICES ASSUME NEW q \in ProgramOp \ Idempotent
                 PROVE  /\ IsFiniteSet(Performers(q)')
                        /\ Cardinality(Performers(q)') + performed'[q] + Unstarted(q)'
                              <= Allowed(q)'
      BY DEF PerformedInv
    <3>1. CASE q # o \/ program.cancelled
      <4>1. Performers(q)' \subseteq Performers(q)
        BY <2>1, <2>2, <3>1 DEF Performers, Holds
      <4>2. Unstarted(q)' = Unstarted(q) /\ Unstarted(q) \in Nat
        BY <2>2, <3>1 DEF Unstarted
      <4> QED BY <1>1, <2>2, <2>5, <4>1, <4>2, PerformedKept DEF ProgramsInv
    <3>2. CASE q = o /\ ~program.cancelled
      <4>1. Performers(o)' = Performers(o) \cup {w} /\ w \notin Performers(o)
        BY <1>1, <1>3, <2>1, <2>2, <3>2 DEF Performers, Holds
      <4>2. /\ IsFiniteSet(Performers(o)') /\ IsFiniteSet(Performers(o))
            /\ Cardinality(Performers(o)') = Cardinality(Performers(o)) + 1
            /\ Cardinality(Performers(o)) \in Nat
        BY <3>2, <4>1, FS_AddElement, FS_CardinalityType DEF ProgramsInv, PerformedInv
      <4>3. Unstarted(o) = 1 /\ Unstarted(o)' = 0
        BY <2>2, <2>3, <3>2 DEF Unstarted
      <4>4. Allowed(o)' = Allowed(o) /\ Allowed(o) \in Nat
        BY <2>2 DEF Allowed
      <4>5. performed'[o] = performed[o] /\ performed[o] \in Nat
        BY <1>1 DEF ProgramsInv, ProgramsTypeOK
      <4>6. Cardinality(Performers(o)) + performed[o] + Unstarted(o) <= Allowed(o)
        BY <3>2 DEF ProgramsInv, PerformedInv
      <4> QED BY <3>2, <4>2, <4>3, <4>4, <4>5, <4>6
    <3> QED BY <3>1, <3>2
  <2>11. SlotsInv'
    <3>1. UnsettledOps' = UnsettledOps
      BY <2>2, <2>3 DEF UnsettledOps, Unsettled, started
    <3> QED BY <2>2, <3>1, SlotsKept DEF ProgramsInv
  <2> QED BY <2>5, <2>6, <2>7, <2>9, <2>10, <2>11 DEF ProgramsInv
<1> QED BY <1>2, <1>3 DEF StartCall

\* A call of an attempt.
LEMMA CallStepKeeps ==
    ASSUME ProgramsAssumption, ProgramsInv, NEW w \in Worker, ProgramCallStep(w)
    PROVE  ProgramsInv'
<1>1. PICK o \in ProgramOp :
        \/ Reserve(w, o) \/ Deny(w, o) \/ SuspendCall(w, o)
        \/ StartCall(w, o) \/ Dispatch(w, o) \/ PerformCall(w, o)
        \/ ReturnCall(w, o) \/ FailCall(w, o) \/ SettleUnknown(w, o)
  BY DEF ProgramCallStep
<1> QED BY <1>1, ReserveKeeps, SettlementsKeep, SuspendKeeps, StartKeeps, DispatchKeeps,
           PerformKeeps

-----------------------------------------------------------------------------
(* Every step keeps the invariant: the beginning and the end of attempts.  *)

\* A worker with no call under way, before or after, takes or leaves the Run: what is
\* recorded stays, but for what a cancellation fails.
LEMMA AttemptStepKeeps ==
    ASSUME ProgramsInv, NEW w \in Worker,
           attempts' \in [Worker -> AttemptRecord],
           \A o \in ProgramOp : attempts'[w].pc[o] = "ready",
           \A v \in Worker \ {w} : attempts'[v] = attempts[v],
           program' \in ProgramRun,
           program'.cancelled = program.cancelled,
           program'.resolved = program.resolved,
           program'.slots = program.slots \/ program.cancelled,
           \A o \in ProgramOp : /\ program'.ops[o] \in {program.ops[o], "failed"}
                                /\ program'.ops[o] # program.ops[o] =>
                                      program.ops[o] \in Unsettled /\ program.cancelled
                                /\ program.waits[o] = "approved" => program'.waits[o] = "approved",
           \A v \in Worker \ {w} : Holds(v)' => Holds(v),
           Holds(w)' => attempts'[w].phase # "idle",
           attempts'[w].approved => /\ attempts'[w].suspension \in ProgramOp
                                    /\ program'.waits[attempts'[w].suspension] = "approved",
           program'.status = "succeeded" =>
                /\ \A o \in ProgramOp : program.ops[o] = "succeeded"
                /\ Holds(w)' => attempts'[w].phase = "leaving"
                /\ program.status = "succeeded" \/ \A v \in Worker \ {w} : ~Holds(v)',
           program.cancelled => program'.status \notin {"succeeded", "failed"},
           UNCHANGED performed, programFaults' \in Nat
    PROVE  ProgramsInv'
<1>1. ProgramsTypeOK'
  BY DEF ProgramsInv, ProgramsTypeOK
<1>2. AttemptsInv'
  <2> SUFFICES ASSUME NEW v \in Worker
               PROVE  /\ Holds(v)' => attempts'[v].phase # "idle"
                      /\ attempts'[v].phase # "calling" =>
                            \A o \in ProgramOp : attempts'[v].pc[o] = "ready"
                      /\ attempts'[v].approved =>
                            /\ attempts'[v].suspension \in ProgramOp
                            /\ program'.waits[attempts'[v].suspension] = "approved"
                      /\ program'.status = "succeeded" /\ Holds(v)' =>
                            attempts'[v].phase = "leaving"
    BY DEF AttemptsInv
  <2>1. CASE v = w
    BY <2>1
  <2>2. CASE v # w
    BY <2>2 DEF ProgramsInv, AttemptsInv
  <2> QED BY <2>1, <2>2
<1>3. CallsInv'
  <2> SUFFICES ASSUME NEW v \in Worker, NEW o \in ProgramOp
               PROVE  LET pc == attempts'[v].pc[o]
                      IN  /\ pc = "preparing" /\ Holds(v)' =>
                              /\ program'.ops[o] \in {"reserved", "failed"}
                              /\ ~program'.cancelled => program'.ops[o] = "reserved"
                          /\ pc = "returned" => program'.ops[o] = "succeeded"
                          /\ pc \in {"dispatching", "performing", "performed"} /\ o \in Approval =>
                              program'.waits[o] = "approved"
                          /\ pc = "performed" => performed'[o] > 0
    BY DEF CallsInv
  <2>1. CASE v = w
    BY <2>1
  <2>2. CASE v # w
    BY <2>2 DEF ProgramsInv, CallsInv, Unsettled
  <2> QED BY <2>1, <2>2
<1>4. OutcomesInv'
  BY DEF ProgramsInv, OutcomesInv, Unsettled
<1>5. PerformedInv'
  <2> SUFFICES ASSUME NEW q \in ProgramOp \ Idempotent
               PROVE  /\ IsFiniteSet(Performers(q)')
                      /\ Cardinality(Performers(q)') + performed'[q] + Unstarted(q)'
                            <= Allowed(q)'
    BY DEF PerformedInv
  <2>1. Performers(q)' \subseteq Performers(q)
    <3> SUFFICES ASSUME NEW v \in Performers(q)' PROVE v \in Performers(q)
      OBVIOUS
    <3>1. v # w /\ v \in Worker
      BY DEF Performers
    <3> QED BY <3>1 DEF Performers
  <2>2. Unstarted(q)' <= Unstarted(q)
    BY DEF Unstarted
  <2> QED BY <1>1, <2>1, <2>2, PerformedKept DEF ProgramsInv
<1>6. SlotsInv'
  <2>1. CASE program.cancelled
    <3>1. UnsettledOps' \subseteq UnsettledOps
      BY DEF UnsettledOps, Unsettled
    <3>2. IsFiniteSet(UnsettledOps')
      BY <3>1, FS_Subset DEF ProgramsInv, SlotsInv
    <3> QED BY <2>1, <3>2 DEF SlotsInv, SlotsAccounted
  <2>2. CASE ~program.cancelled
    <3>1. UnsettledOps' = UnsettledOps
      BY <2>2 DEF UnsettledOps
    <3> QED BY <2>2, <3>1, SlotsKept DEF ProgramsInv
  <2> QED BY <2>1, <2>2
<1> QED BY <1>1, <1>2, <1>3, <1>4, <1>5, <1>6 DEF ProgramsInv

\* An attempt ends without a command to the store.
LEMMA QuitsKeeps ==
    ASSUME ProgramsInv, NEW w \in Worker, Quits(w),
           UNCHANGED <<program, performed>>, programFaults' \in Nat
    PROVE  ProgramsInv'
<1>1. /\ attempts' \in [Worker -> AttemptRecord]
      /\ attempts'[w].phase = "leaving" /\ attempts'[w].approved = FALSE
      /\ \A o \in ProgramOp : attempts'[w].pc[o] = "ready"
      /\ \A v \in Worker \ {w} : attempts'[v] = attempts[v]
  BY QuitsFields DEF ProgramsInv
<1>2. /\ program \in ProgramRun
      /\ program.status = "succeeded" => \A o \in ProgramOp : program.ops[o] = "succeeded"
      /\ program.cancelled => program.status \notin {"succeeded", "failed"}
  BY DEF ProgramsInv, ProgramsTypeOK, OutcomesInv
<1>3. \A v \in Worker : Holds(v)' => Holds(v)
  BY DEF Holds
<1> QED BY <1>1, <1>2, <1>3, AttemptStepKeeps

\* An attempt completes its Run, or fails it.
LEMMA EndsKeeps ==
    ASSUME ProgramsAssumption, ProgramsInv, NEW w \in Worker,
           NEW outcome \in {"succeeded", "failed"}, EndsAs(w, outcome),
           outcome = "succeeded" => \A o \in ProgramOp : program.ops[o] = "succeeded"
    PROVE  ProgramsInv'
<1>1. Quits(w) /\ UNCHANGED <<performed, programFaults>>
  BY DEF EndsAs
<1>2. programFaults' \in Nat /\ program \in ProgramRun
  BY <1>1 DEF ProgramsInv, ProgramsTypeOK
<1>3. CASE UNCHANGED program
  BY <1>1, <1>2, <1>3, QuitsKeeps
<1>4. CASE /\ Holds(w) /\ ~HasProgramEnded
           /\ program' = ProgramFinished(program, outcome)
  <2>1. /\ attempts' \in [Worker -> AttemptRecord]
        /\ attempts'[w].phase = "leaving" /\ attempts'[w].approved = FALSE
        /\ \A o \in ProgramOp : attempts'[w].pc[o] = "ready"
        /\ \A v \in Worker \ {w} : attempts'[v] = attempts[v]
    BY <1>1, QuitsFields DEF ProgramsInv
  <2>2. /\ program' \in ProgramRun
        /\ program'.cancelled = program.cancelled /\ program'.resolved = program.resolved
        /\ program'.owner \in {program.owner, NoWorker}
        /\ ~program.cancelled => program' = [program EXCEPT !.status = outcome]
        /\ program.cancelled => program'.status \in {program.status, "cancelled"}
        /\ \A o \in ProgramOp :
             /\ program'.ops[o] \in {program.ops[o], "failed"}
             /\ program'.ops[o] # program.ops[o] =>
                    program.ops[o] \in Unsettled /\ program.cancelled
             /\ program'.waits[o] \in {program.waits[o], "cancelled"}
             /\ program'.waits[o] # program.waits[o] => program.waits[o] = "open"
    <3> DEFINE Q == ProgramFinished(program, outcome)
    <3>1. /\ Q \in ProgramRun
          /\ Q.cancelled = program.cancelled /\ Q.resolved = program.resolved
          /\ Q.owner \in {program.owner, NoWorker}
          /\ ~program.cancelled => Q = [program EXCEPT !.status = outcome]
          /\ program.cancelled => Q.status \in {program.status, "cancelled"}
      BY <1>2, FinishedFields
    <3>2. \A o \in ProgramOp :
             /\ Q.ops[o] \in {program.ops[o], "failed"}
             /\ Q.ops[o] # program.ops[o] => program.ops[o] \in Unsettled /\ program.cancelled
             /\ Q.waits[o] \in {program.waits[o], "cancelled"}
             /\ Q.waits[o] # program.waits[o] => program.waits[o] = "open"
      BY <1>2, FinishedFields
    <3>3. program' = Q
      BY <1>4
    <3> HIDE DEF Q
    <3> QED BY <3>1, <3>2, <3>3
  <2>3. program'.slots = program.slots \/ program.cancelled
    BY <1>2, <2>2 DEF ProgramRun
  <2>4. program.status \notin {"succeeded", "failed"}
    BY <1>4 DEF HasProgramEnded, ProgramEnds
  <2>5. program'.status = "succeeded" => ~program.cancelled /\ outcome = "succeeded"
    BY <1>2, <2>2, <2>4 DEF ProgramRun
  <2>6. \A v \in Worker : Holds(v)' => v = w
    BY <1>4, <2>2 DEF Holds, ProgramsAssumption
  <2>7. \A v \in Worker \ {w} : Holds(v)' => Holds(v)
    BY <2>6
  <2>8. \A o \in ProgramOp : program.waits[o] = "approved" => program'.waits[o] = "approved"
    BY <2>2
  <2>9. program.cancelled => program'.status \notin {"succeeded", "failed"}
    BY <2>2, <2>4
  <2> QED BY <1>1, <1>2, <2>1, <2>2, <2>3, <2>5, <2>6, <2>7, <2>8, <2>9, AttemptStepKeeps
<1> QED BY <1>3, <1>4 DEF EndsAs

\* A worker claims the Run.
LEMMA ClaimKeeps ==
    ASSUME ProgramsAssumption, ProgramsInv, NEW w \in Worker, ClaimProgram(w)
    PROVE  ProgramsInv'
<1>1. /\ attempts[w].phase = "idle" /\ program \in ProgramRun
      /\ program.status \in {"running", "cancelling"}
      /\ UNCHANGED <<performed, programFaults>> /\ programFaults \in Nat
  BY DEF ClaimProgram, ProgramsInv, ProgramsTypeOK
<1>2. attempts' = [attempts EXCEPT ![w].phase = "loading"]
  BY DEF ClaimProgram
<1>3. /\ attempts' \in [Worker -> AttemptRecord]
      /\ attempts'[w].phase = "loading"
      /\ attempts'[w].suspension = attempts[w].suspension
      /\ attempts'[w].approved = attempts[w].approved
      /\ attempts'[w].pc = attempts[w].pc
      /\ \A v \in Worker \ {w} : attempts'[v] = attempts[v]
  BY <1>2, PhaseFields DEF ProgramsInv
<1>4. /\ program' \in ProgramRun /\ program'.owner = w
      /\ program'.status \in {"running", "cancelling"}
      /\ program'.cancelled = program.cancelled /\ program'.resolved = program.resolved
      /\ program'.slots = program.slots /\ program'.ops = program.ops
      /\ program'.waits = program.waits
  BY <1>1 DEF ClaimProgram, ProgramRun
<1>5. /\ \A o \in ProgramOp : attempts[w].pc[o] = "ready"
      /\ attempts[w].approved => /\ attempts[w].suspension \in ProgramOp
                                 /\ program.waits[attempts[w].suspension] = "approved"
  BY <1>1 DEF ProgramsInv, AttemptsInv
<1>6. \A v \in Worker \ {w} : ~Holds(v)'
  BY <1>4 DEF Holds
<1> QED BY <1>1, <1>3, <1>4, <1>5, <1>6, AttemptStepKeeps

\* An attempt starts the code, with the answer to its last suspension.
LEMMA LoadKeeps ==
    ASSUME ProgramsInv, NEW w \in Worker, LoadProgram(w)
    PROVE  ProgramsInv'
<1>1. /\ attempts[w].phase = "loading" /\ program \in ProgramRun
      /\ UNCHANGED <<program, performed, programFaults>> /\ programFaults \in Nat
  BY DEF LoadProgram, ProgramsInv, ProgramsTypeOK
<1>2. /\ \A o \in ProgramOp : attempts[w].pc[o] = "ready"
      /\ attempts[w].approved => /\ attempts[w].suspension \in ProgramOp
                                 /\ program.waits[attempts[w].suspension] = "approved"
      /\ ~(program.status = "succeeded" /\ Holds(w))
  BY <1>1 DEF ProgramsInv, AttemptsInv
<1>3. /\ program.status = "succeeded" => \A o \in ProgramOp : program.ops[o] = "succeeded"
      /\ program.cancelled => program.status \notin {"succeeded", "failed"}
  BY DEF ProgramsInv, OutcomesInv
<1>4. \A v \in Worker : Holds(v)' <=> Holds(v)
  BY <1>1 DEF Holds
<1>5. CASE Quits(w)
  BY <1>1, <1>5, QuitsKeeps
<1>6. CASE attempts' = [attempts EXCEPT ![w].phase = "failing"]
  <2>1. /\ attempts' \in [Worker -> AttemptRecord]
        /\ attempts'[w].phase = "failing"
        /\ attempts'[w].suspension = attempts[w].suspension
        /\ attempts'[w].approved = attempts[w].approved
        /\ attempts'[w].pc = attempts[w].pc
        /\ \A v \in Worker \ {w} : attempts'[v] = attempts[v]
    BY <1>6, PhaseFields DEF ProgramsInv
  <2> QED BY <1>1, <1>2, <1>3, <1>4, <2>1, AttemptStepKeeps
<1>7. CASE /\ Holds(w)
           /\ LET o == program.suspension
              IN  attempts' = [attempts EXCEPT ![w].phase = "calling", ![w].suspension = o,
                      ![w].approved = o # NoOp /\ program.waits[o] = "approved",
                      ![w].denied = o # NoOp /\ program.waits[o] = "denied"]
  <2> DEFINE o == program.suspension
             A == [attempts[w] EXCEPT !.phase = "calling", !.suspension = o,
                      !.approved = o # NoOp /\ program.waits[o] = "approved",
                      !.denied = o # NoOp /\ program.waits[o] = "denied"]
  <2>1. attempts' = [attempts EXCEPT ![w] = A]
    BY <1>7 DEF ProgramsInv, ProgramsTypeOK, AttemptRecord
  <2>2. o \in ProgramOp \cup {NoOp}
    BY <1>1 DEF ProgramRun
  <2>3. /\ A \in AttemptRecord /\ A.phase = "calling" /\ A.suspension = o
        /\ A.approved = (o # NoOp /\ program.waits[o] = "approved")
        /\ A.pc = attempts[w].pc
    BY <2>2 DEF ProgramsInv, ProgramsTypeOK, AttemptRecord
  <2> HIDE DEF A
  <2>4. /\ attempts' \in [Worker -> AttemptRecord] /\ attempts'[w] = A
        /\ \A v \in Worker \ {w} : attempts'[v] = attempts[v]
    BY <2>1, <2>3, AttemptFields DEF ProgramsInv
  <2>5. A.approved => A.suspension \in ProgramOp /\ program.waits[A.suspension] = "approved"
    BY <2>2, <2>3
  <2>6. /\ \A q \in ProgramOp : attempts'[w].pc[q] = "ready"
        /\ attempts'[w].phase = "calling"
        /\ attempts'[w].approved => /\ attempts'[w].suspension \in ProgramOp
                                    /\ program'.waits[attempts'[w].suspension] = "approved"
    BY <1>1, <1>2, <2>3, <2>4, <2>5
  <2>7. program.status # "succeeded"
    BY <1>2, <1>7
  <2> HIDE DEF o
  <2> QED BY <1>1, <1>3, <1>4, <2>4, <2>6, <2>7, AttemptStepKeeps
<1> QED BY <1>5, <1>6, <1>7 DEF LoadProgram

\* An attempt leaves a Run that suspends.
LEMMA LeaveKeeps ==
    ASSUME ProgramsAssumption, ProgramsInv, NEW w \in Worker, LeaveSuspended(w)
    PROVE  ProgramsInv'
<1> DEFINE o == attempts[w].suspension
           S == ProgramSuspended(program, o)
<1>1. /\ Quits(w) /\ UNCHANGED <<performed, programFaults>> /\ programFaults \in Nat
      /\ program \in ProgramRun /\ o \in ProgramOp \cup {NoOp}
  BY DEF LeaveSuspended, ProgramsInv, ProgramsTypeOK, AttemptRecord
<1>2. CASE UNCHANGED program
  BY <1>1, <1>2, QuitsKeeps
<1>3. CASE /\ program' = S /\ o # NoOp /\ Holds(w)
           /\ ~HasProgramEnded /\ Reopens(program, o)
  <2>1. /\ attempts' \in [Worker -> AttemptRecord]
        /\ attempts'[w].phase = "leaving" /\ attempts'[w].approved = FALSE
        /\ \A q \in ProgramOp : attempts'[w].pc[q] = "ready"
        /\ \A v \in Worker \ {w} : attempts'[v] = attempts[v]
    BY <1>1, QuitsFields DEF ProgramsInv
  <2>2. /\ S \in ProgramRun /\ S.waits = [program.waits EXCEPT ![o] = "open"]
        /\ S.status = "waiting" /\ S.owner = NoWorker
        /\ S.ops = program.ops /\ S.slots = program.slots
        /\ S.cancelled = program.cancelled /\ S.resolved = program.resolved
    BY <1>1, <1>3, SuspendedFields
  <2>3. program.waits[o] # "approved"
    BY <1>3 DEF Reopens
  <2> HIDE DEF o, S
  <2>4. \A v \in Worker : ~Holds(v)'
    BY <1>3, <2>2 DEF Holds, ProgramsAssumption
  <2>5. \A q \in ProgramOp : program.waits[q] = "approved" => program'.waits[q] = "approved"
    BY <1>1, <1>3, <2>2, <2>3 DEF ProgramRun
  <2> QED BY <1>1, <1>3, <2>1, <2>2, <2>4, <2>5, AttemptStepKeeps
<1> QED BY <1>2, <1>3 DEF LeaveSuspended

\* An execution is interrupted by the cancellation of its Run.
LEMMA InterruptKeeps ==
    ASSUME ProgramsInv, NEW w \in Worker, InterruptProgram(w)
    PROVE  ProgramsInv'
<1> DEFINE A == [NoAttempt EXCEPT !.phase = "failing"]
<1>1. /\ program.cancelled /\ attempts' = [attempts EXCEPT ![w] = A]
      /\ UNCHANGED <<program, performed, programFaults>>
      /\ programFaults \in Nat /\ program \in ProgramRun
  BY DEF InterruptProgram, ProgramsInv, ProgramsTypeOK
<1>2. /\ A \in AttemptRecord /\ A.phase = "failing" /\ A.approved = FALSE
      /\ \A o \in ProgramOp : A.pc[o] = "ready"
  BY NoAttemptTyped DEF AttemptRecord
<1> HIDE DEF A
<1>3. /\ attempts' \in [Worker -> AttemptRecord] /\ attempts'[w] = A
      /\ \A v \in Worker \ {w} : attempts'[v] = attempts[v]
  BY <1>1, <1>2, AttemptFields DEF ProgramsInv
<1>4. program.status # "succeeded" /\ program.status # "failed"
  BY <1>1 DEF ProgramsInv, OutcomesInv
<1>5. \A v \in Worker : Holds(v)' => Holds(v)
  BY <1>1 DEF Holds
<1> QED BY <1>1, <1>2, <1>3, <1>4, <1>5, AttemptStepKeeps

\* A worker releases its claim and is idle.
LEMMA ReleaseKeeps ==
    ASSUME ProgramsAssumption, ProgramsInv, NEW w \in Worker, ReleaseProgram(w)
    PROVE  ProgramsInv'
<1>1. /\ attempts' = [attempts EXCEPT ![w] = NoAttempt]
      /\ UNCHANGED <<performed, programFaults>>
      /\ programFaults \in Nat /\ program \in ProgramRun
  BY DEF ReleaseProgram, ProgramsInv, ProgramsTypeOK
<1>2. /\ attempts' \in [Worker -> AttemptRecord] /\ attempts'[w] = NoAttempt
      /\ \A v \in Worker \ {w} : attempts'[v] = attempts[v]
  BY <1>1, NoAttemptTyped, AttemptFields DEF ProgramsInv
<1>3. /\ program' \in ProgramRun /\ program'.owner \in {program.owner, NoWorker}
      /\ program'.owner # w
      /\ program'.status = program.status /\ program'.cancelled = program.cancelled
      /\ program'.resolved = program.resolved /\ program'.slots = program.slots
      /\ program'.ops = program.ops /\ program'.waits = program.waits
  BY <1>1 DEF ReleaseProgram, Holds, ProgramRun, ProgramsAssumption
<1>4. /\ program.status = "succeeded" => \A o \in ProgramOp : program.ops[o] = "succeeded"
      /\ program.cancelled => program.status \notin {"succeeded", "failed"}
  BY DEF ProgramsInv, OutcomesInv
<1>5. /\ \A v \in Worker : Holds(v)' => Holds(v)
      /\ ~Holds(w)'
  BY <1>3 DEF Holds, ProgramsAssumption
<1> QED BY <1>1, <1>2, <1>3, <1>4, <1>5, NoAttemptTyped, AttemptStepKeeps

\* How attempts end.
LEMMA LeavingKeeps ==
    ASSUME ProgramsAssumption, ProgramsInv, NEW w \in Worker,
           \/ CompleteProgram(w) \/ ThrowProgram(w) \/ FailProgram(w) \/ StopWorker(w)
    PROVE  ProgramsInv'
<1>1. CASE CompleteProgram(w)
  BY <1>1, EndsKeeps DEF CompleteProgram, ProgramsInv, CallsInv
<1>2. CASE ThrowProgram(w)
  <2>1. programFaults \in Nat
    BY DEF ProgramsInv, ProgramsTypeOK
  <2>2. CASE Quits(w) /\ UNCHANGED <<program, performed, programFaults>>
    BY <2>1, <2>2, QuitsKeeps
  <2>3. CASE EndsAs(w, "failed")
    BY <2>3, EndsKeeps
  <2> QED BY <1>2, <2>2, <2>3 DEF ThrowProgram
<1>3. CASE FailProgram(w)
  BY <1>3, EndsKeeps DEF FailProgram
<1>4. CASE StopWorker(w)
  BY <1>4, QuitsKeeps DEF StopWorker, ProgramFault, ProgramsInv, ProgramsTypeOK
<1> QED BY <1>1, <1>2, <1>3, <1>4

-----------------------------------------------------------------------------
(* Every step keeps the invariant: callers, operators and lost claims.     *)

\* The stored Run changes under the attempts.
LEMMA StoreStepKeeps ==
    ASSUME ProgramsInv, UNCHANGED <<attempts, performed>>, programFaults' \in Nat,
           program' \in ProgramRun,
           program.cancelled => program'.cancelled,
           program'.cancelled => program'.status \notin {"succeeded", "failed"},
           program'.status = "succeeded" => /\ program.status = "succeeded"
                                            /\ program'.ops = program.ops,
           \A v \in Worker : Holds(v)' => Holds(v),
           \A o \in ProgramOp :
                /\ program.waits[o] = "approved" => program'.waits[o] = "approved"
                /\ program.ops[o] = "succeeded" => program'.ops[o] = "succeeded"
                /\ program'.ops[o] = "running" => program.ops[o] = "running"
                /\ program'.ops[o] = "succeeded" =>
                      program.ops[o] = "succeeded" \/ program'.resolved[o] = "recorded"
                /\ program.resolved[o] = "recorded" => program'.resolved[o] = "recorded"
                /\ Unstarted(o)' + Allowed(o) <= Unstarted(o) + Allowed(o)'
                /\ program.ops[o] \in {"reserved", "failed"} /\ (\E v \in Worker : Holds(v)') =>
                      /\ program'.ops[o] \in {"reserved", "failed"}
                      /\ ~program'.cancelled => program'.ops[o] = program.ops[o],
           SlotsInv'
    PROVE  ProgramsInv'
<1>1. ProgramsTypeOK'
  BY DEF ProgramsInv, ProgramsTypeOK
<1>2. AttemptsInv'
  BY DEF ProgramsInv, AttemptsInv
<1>3. CallsInv'
  BY DEF ProgramsInv, CallsInv
<1>4. OutcomesInv'
  BY DEF ProgramsInv, OutcomesInv
<1>5. PerformedInv'
  <2> SUFFICES ASSUME NEW q \in ProgramOp \ Idempotent
               PROVE  /\ IsFiniteSet(Performers(q)')
                      /\ Cardinality(Performers(q)') + performed'[q] + Unstarted(q)'
                            <= Allowed(q)'
    BY DEF PerformedInv
  <2>1. Performers(q)' \subseteq Performers(q)
    BY DEF Performers
  <2>2. IsFiniteSet(Performers(q)) /\ IsFiniteSet(Performers(q)')
    BY <2>1, FS_Subset DEF ProgramsInv, PerformedInv
  <2>3. /\ Cardinality(Performers(q)') <= Cardinality(Performers(q))
        /\ Cardinality(Performers(q)') \in Nat /\ Cardinality(Performers(q)) \in Nat
    BY <2>1, <2>2, FS_Subset, FS_CardinalityType
  <2>4. /\ Unstarted(q) \in Nat /\ Unstarted(q)' \in Nat
        /\ Allowed(q) \in Nat /\ Allowed(q)' \in Nat
    BY DEF Unstarted, Allowed
  <2>5. performed'[q] = performed[q] /\ performed[q] \in Nat
    BY DEF ProgramsInv, ProgramsTypeOK
  <2>6. /\ Cardinality(Performers(q)) + performed[q] + Unstarted(q) <= Allowed(q)
        /\ Unstarted(q)' + Allowed(q) <= Unstarted(q) + Allowed(q)'
    BY DEF ProgramsInv, PerformedInv
  <2> QED BY <2>2, <2>3, <2>4, <2>5, <2>6
<1> QED BY <1>1, <1>2, <1>3, <1>4, <1>5 DEF ProgramsInv

\* A claim is lost to the lease of its owner.
LEMMA ClaimLostKeeps ==
    ASSUME ProgramsAssumption, ProgramsInv, NEW w \in Worker, ClaimLost(w)
    PROVE  ProgramsInv'
<1>1. /\ UNCHANGED <<attempts, performed>> /\ programFaults' \in Nat
      /\ program \in ProgramRun /\ program' = [program EXCEPT !.owner = NoWorker]
  BY DEF ClaimLost, ProgramFault, ProgramsInv, ProgramsTypeOK
<1>2. /\ program' \in ProgramRun /\ program'.owner = NoWorker
      /\ program'.status = program.status /\ program'.cancelled = program.cancelled
      /\ program'.resolved = program.resolved /\ program'.slots = program.slots
      /\ program'.ops = program.ops /\ program'.waits = program.waits
  BY <1>1 DEF ProgramRun
<1>3. \A v \in Worker : ~Holds(v)'
  BY <1>2 DEF Holds, ProgramsAssumption
<1>4. program.cancelled => program.status \notin {"succeeded", "failed"}
  BY DEF ProgramsInv, OutcomesInv
<1>5. \A o \in ProgramOp : Unstarted(o)' + Allowed(o) <= Unstarted(o) + Allowed(o)'
  BY <1>2 DEF Unstarted, Allowed
<1>6. SlotsInv'
  BY <1>2 DEF ProgramsInv, SlotsInv, SlotsAccounted, UnsettledOps
<1> QED BY <1>1, <1>2, <1>3, <1>4, <1>5, <1>6, StoreStepKeeps

\* A caller cancels the Run.
LEMMA CancelKeeps ==
    ASSUME ProgramsInv, CancelProgram
    PROVE  ProgramsInv'
<1> DEFINE Q == ProgramCancelled(program)
<1>1. /\ UNCHANGED <<attempts, performed>> /\ programFaults' \in Nat
      /\ program \in ProgramRun /\ program' = Q /\ ~HasProgramEnded
  BY DEF CancelProgram, ProgramsInv, ProgramsTypeOK
<1>2. /\ Q \in ProgramRun
      /\ Q.cancelled = TRUE /\ Q.resolved = program.resolved /\ Q.owner = program.owner
      /\ \/ Q.status \in {"cancelling", "cancelled", "needs-resolution"}
         \/ program.cancelled /\ Q.status = program.status
  BY <1>1, CancelledFields
<1>3. \A o \in ProgramOp :
        /\ Q.ops[o] = IF program.ops[o] \in Unsettled THEN "failed" ELSE program.ops[o]
        /\ Q.waits[o] = IF program.waits[o] = "open" THEN "cancelled" ELSE program.waits[o]
  BY <1>1, CancelledFields
<1> HIDE DEF Q
<1>4. program'.status \notin {"succeeded", "failed"}
  BY <1>1, <1>2 DEF HasProgramEnded, ProgramEnds
<1>5. \A v \in Worker : Holds(v)' => Holds(v)
  BY <1>1, <1>2 DEF Holds
<1>6. \A o \in ProgramOp : Unstarted(o)' + Allowed(o) <= Unstarted(o) + Allowed(o)'
  BY <1>1, <1>2 DEF Unstarted, Allowed
<1>7. SlotsInv'
  <2>1. UnsettledOps' \subseteq UnsettledOps
    BY <1>1, <1>3 DEF UnsettledOps, Unsettled
  <2>2. IsFiniteSet(UnsettledOps')
    BY <2>1, FS_Subset DEF ProgramsInv, SlotsInv
  <2> QED BY <1>1, <1>2, <2>2 DEF SlotsInv, SlotsAccounted
<1> QED BY <1>1, <1>2, <1>3, <1>4, <1>5, <1>6, <1>7, StoreStepKeeps DEF Unsettled

\* An open wait is answered.
LEMMA RespondKeeps ==
    ASSUME ProgramsInv, NEW o \in ProgramOp, RespondProgram(o)
    PROVE  ProgramsInv'
<1>1. PICK answer \in WaitAnswer : program' = Answered(program, o, answer)
  BY DEF RespondProgram, WaitAnswer
<1> DEFINE Q == Answered(program, o, answer)
<1>2. /\ UNCHANGED <<attempts, performed>> /\ programFaults' \in Nat
      /\ program \in ProgramRun /\ ~program.cancelled /\ program.waits[o] = "open"
  BY DEF RespondProgram, Answerable, ProgramsInv, ProgramsTypeOK
<1>3. /\ Q \in ProgramRun
      /\ Q.waits = [program.waits EXCEPT ![o] = answer]
      /\ Q.status = "running" /\ Q.owner = program.owner /\ Q.slots = program.slots
      /\ Q.cancelled = program.cancelled /\ Q.resolved = program.resolved
  BY <1>2, AnsweredFields
<1>4. \A q \in ProgramOp : Q.ops[q] = IF q = o /\ program.ops[o] = "waiting" THEN "reserved"
                                   ELSE program.ops[q]
  BY <1>2, AnsweredFields
<1> HIDE DEF Q
<1>9. \A q \in ProgramOp : program.waits[q] = "approved" => Q.waits[q] = "approved"
  BY <1>2, <1>3 DEF ProgramRun
<1>5. program' = Q
  BY <1>1 DEF Q
<1>6. \A v \in Worker : Holds(v)' => Holds(v)
  BY <1>3, <1>5 DEF Holds
<1>7. ASSUME NEW q \in ProgramOp
      PROVE  Unstarted(q)' + Allowed(q) <= Unstarted(q) + Allowed(q)'
  <2>1. Unstarted(q)' = Unstarted(q)
    BY <1>3, <1>4, <1>5 DEF Unstarted
  <2>2. Allowed(q)' = Allowed(q)
    BY <1>3, <1>5 DEF Allowed
  <2>3. Unstarted(q) \in Nat /\ Allowed(q) \in Nat
    BY DEF Unstarted, Allowed
  <2> QED BY <2>1, <2>2, <2>3
<1>8. SlotsInv'
  <2>1. UnsettledOps' = UnsettledOps
    BY <1>4, <1>5 DEF UnsettledOps, Unsettled
  <2> QED BY <1>3, <1>5, <2>1, SlotsKept DEF ProgramsInv
<1> QED BY <1>2, <1>3, <1>4, <1>5, <1>6, <1>7, <1>8, <1>9, StoreStepKeeps

\* An operator decides what became of an operation: a retry allows one more effect.
LEMMA ResolveKeeps ==
    ASSUME ProgramsAssumption, ProgramsInv, NEW o \in ProgramOp, ResolveCall(o)
    PROVE  ProgramsInv'
<1>1. PICK status \in Decisions, byOperator \in BOOLEAN :
        LET Q == [program EXCEPT !.ops[o] = status, !.owner = NoWorker,
                    !.resolved[o] = IF status = "reserved" THEN "retry" ELSE "recorded"]
            P == [Q EXCEPT !.status = IF Unresolved(Q) THEN "needs-resolution"
                                      ELSE IF program.cancelled THEN "cancelling" ELSE "running"]
        IN  /\ program' = IF program.cancelled /\ ~byOperator THEN ProgramCancelled(P) ELSE P
            /\ IF status = "reserved" THEN ProgramFault ELSE UNCHANGED programFaults
  BY DEF ResolveCall
<1> DEFINE ops == [program.ops EXCEPT ![o] = status]
           resolution == IF status = "reserved" THEN "retry" ELSE "recorded"
           resolved == [program.resolved EXCEPT ![o] = resolution]
           Q == [program EXCEPT !.ops = ops, !.owner = NoWorker, !.resolved = resolved]
           stage == IF Unresolved(Q) THEN "needs-resolution"
                    ELSE IF program.cancelled THEN "cancelling" ELSE "running"
           P == [Q EXCEPT !.status = stage]
<1>2. /\ UNCHANGED <<attempts, performed>> /\ programFaults' \in Nat
      /\ program \in ProgramRun
      /\ program.ops[o] = "unknown" /\ program.resolved[o] = "no"
      /\ status \in {"succeeded", "failed", "reserved"}
  BY <1>1 DEF ResolveCall, ProgramFault, ProgramsInv, ProgramsTypeOK, ProgramsAssumption
<1>3. program' \in {P, ProgramCancelled(P)}
      /\ (program' = P \/ program.cancelled)
  <2>1. [program EXCEPT !.ops[o] = status, !.owner = NoWorker,
            !.resolved[o] = IF status = "reserved" THEN "retry" ELSE "recorded"] = Q
    BY <1>2 DEF ProgramRun
  <2> QED BY <1>1, <2>1
<1>4. /\ ops \in [ProgramOp -> OpStatus]
      /\ \A q \in ProgramOp : ops[q] = IF q = o THEN status ELSE program.ops[q]
  BY <1>2 DEF ProgramRun, OpStatus, Unsettled
<1>5. /\ resolved \in [ProgramOp -> {"no", "recorded", "retry"}]
      /\ \A q \in ProgramOp : resolved[q] = IF q = o THEN resolution ELSE program.resolved[q]
  BY <1>2 DEF ProgramRun
<1> HIDE DEF ops, resolved
<1>6. stage \in {"needs-resolution", "cancelling", "running"}
  OBVIOUS
<1>7. /\ Q \in ProgramRun /\ Q.owner = NoWorker /\ Q.ops = ops /\ Q.resolved = resolved
      /\ Q.cancelled = program.cancelled /\ Q.waits = program.waits
      /\ Q.slots = program.slots
  BY <1>2, <1>4, <1>5 DEF ProgramRun, OpStatus
<1> HIDE DEF Q, stage
<1>8. /\ P \in ProgramRun /\ P.owner = NoWorker /\ P.ops = ops /\ P.resolved = resolved
      /\ P.cancelled = program.cancelled /\ P.waits = program.waits
      /\ P.slots = program.slots /\ P.status = stage
  BY <1>6, <1>7 DEF ProgramRun
<1> HIDE DEF P
<1>9. /\ program' \in ProgramRun /\ program'.owner = NoWorker
      /\ program'.resolved = resolved /\ program'.cancelled = program.cancelled
      /\ program'.status \notin {"succeeded", "failed"}
      /\ \A q \in ProgramOp :
            /\ \/ program'.ops[q] = ops[q]
               \/ program.cancelled /\ ops[q] \in Unsettled /\ program'.ops[q] = "failed"
            /\ program.waits[q] = "approved" => program'.waits[q] = "approved"
      /\ ~program.cancelled => program'.ops = ops /\ program'.slots = program.slots
  <2>1. CASE program' = P
    BY <1>6, <1>8, <2>1
  <2>2. CASE program' = ProgramCancelled(P) /\ program.cancelled
    <3> DEFINE R == ProgramCancelled(P)
    <3>1. /\ R \in ProgramRun
          /\ R.cancelled = TRUE /\ R.resolved = P.resolved /\ R.owner = P.owner
          /\ \/ R.status \in {"cancelling", "cancelled", "needs-resolution"}
             \/ P.cancelled /\ R.status = P.status
      BY <1>8, CancelledFields
    <3>2. \A q \in ProgramOp :
            /\ R.ops[q] = IF P.ops[q] \in Unsettled THEN "failed" ELSE P.ops[q]
            /\ R.waits[q] = IF P.waits[q] = "open" THEN "cancelled" ELSE P.waits[q]
      BY <1>8, CancelledFields
    <3>3. program.cancelled = TRUE
      BY <1>2, <2>2 DEF ProgramRun
    <3> HIDE DEF R
    <3>4. program' = R
      BY <2>2 DEF R
    <3> QED BY <1>6, <1>8, <3>1, <3>2, <3>3, <3>4
  <2> QED BY <1>3, <2>1, <2>2
<1>10. \A v \in Worker : ~Holds(v)'
  BY <1>9 DEF Holds, ProgramsAssumption
<1>11. \A q \in ProgramOp : Unstarted(q)' + Allowed(q) <= Unstarted(q) + Allowed(q)'
  BY <1>2, <1>4, <1>5, <1>9 DEF Unstarted, Allowed, Unsettled
<1>12. SlotsInv'
  <2>1. UnsettledOps' \subseteq UnsettledOps \cup {o}
    BY <1>4, <1>9 DEF UnsettledOps, Unsettled
  <2>2. IsFiniteSet(UnsettledOps \cup {o})
    BY FS_AddElement DEF ProgramsInv, SlotsInv
  <2>3. IsFiniteSet(UnsettledOps')
    BY <2>1, <2>2, FS_Subset
  <2>4. CASE program.cancelled
    BY <1>9, <2>3, <2>4 DEF SlotsInv, SlotsAccounted
  <2>5. CASE status = "reserved"
    BY <1>5, <1>9, <2>3, <2>5 DEF SlotsInv, SlotsAccounted
  <2>6. CASE ~program.cancelled /\ status # "reserved"
    <3>1. UnsettledOps' = UnsettledOps
      BY <1>2, <1>4, <1>9, <2>6 DEF UnsettledOps, Unsettled
    <3>2. \A q \in ProgramOp : program.resolved[q] = "retry" => program'.resolved[q] = "retry"
      BY <1>2, <1>5, <1>9
    <3> QED BY <1>9, <2>6, <3>1, <3>2, SlotsKept DEF ProgramsInv
  <2> QED BY <2>4, <2>5, <2>6
<1>13. \A q \in ProgramOp :
        /\ program.ops[q] = "succeeded" => program'.ops[q] = "succeeded"
        /\ program'.ops[q] = "running" => program.ops[q] = "running"
        /\ program'.ops[q] = "succeeded" =>
              program.ops[q] = "succeeded" \/ program'.resolved[q] = "recorded"
        /\ program.resolved[q] = "recorded" => program'.resolved[q] = "recorded"
  BY <1>2, <1>4, <1>5, <1>9 DEF Unsettled
<1> QED BY <1>2, <1>9, <1>10, <1>11, <1>12, <1>13, StoreStepKeeps

-----------------------------------------------------------------------------
(* The theorems.                                                           *)

LEMMA ProgramsInvInit ==
    ASSUME ProgramsAssumption, ProgramsInit
    PROVE  ProgramsInv
<1>1. ProgramsTypeOK
  BY DEF ProgramsAssumption, ProgramsInit, ProgramsTypeOK, ProgramRun, NoAttempt, AttemptRecord
<1>2. AttemptsInv
  BY DEF ProgramsAssumption, ProgramsInit, AttemptsInv, NoAttempt, Holds
<1>3. CallsInv
  BY DEF ProgramsInit, CallsInv, NoAttempt
<1>4. OutcomesInv
  BY DEF ProgramsInit, OutcomesInv
<1>5. PerformedInv
  <2> SUFFICES ASSUME NEW q \in ProgramOp \ Idempotent
               PROVE  /\ IsFiniteSet(Performers(q))
                      /\ Cardinality(Performers(q)) + performed[q] + Unstarted(q) <= Allowed(q)
    BY DEF PerformedInv
  <2>1. Performers(q) = {}
    BY DEF ProgramsInit, Performers, NoAttempt
  <2>2. performed[q] = 0 /\ Unstarted(q) = 1 /\ Allowed(q) = 1
    BY DEF ProgramsInit, Unstarted, Allowed
  <2> QED BY <2>1, <2>2, FS_EmptySet
<1>6. SlotsInv
  <2>1. UnsettledOps = {} /\ program.slots = 0
    BY DEF ProgramsInit, UnsettledOps, Unsettled
  <2> QED BY <2>1, FS_EmptySet DEF SlotsInv, SlotsAccounted, UnsettledOps
<1> QED BY <1>1, <1>2, <1>3, <1>4, <1>5, <1>6 DEF ProgramsInv

LEMMA ProgramsInvNext ==
    ASSUME ProgramsAssumption, ProgramsInv, [ProgramsNext]_programVars
    PROVE  ProgramsInv'
<1>1. CASE \E w \in Worker : WorkerStep(w) \/ StopWorker(w) \/ ClaimLost(w)
  <2>1. PICK w \in Worker : WorkerStep(w) \/ StopWorker(w) \/ ClaimLost(w)
    BY <1>1
  <2>2. CASE ClaimProgram(w) \/ LoadProgram(w)
    BY <2>2, ClaimKeeps, LoadKeeps
  <2>3. CASE ProgramCallStep(w)
    BY <2>3, CallStepKeeps
  <2>4. CASE CompleteProgram(w) \/ ThrowProgram(w) \/ FailProgram(w) \/ StopWorker(w)
    BY <2>4, LeavingKeeps
  <2>5. CASE LeaveSuspended(w) \/ InterruptProgram(w) \/ ReleaseProgram(w)
    BY <2>5, LeaveKeeps, InterruptKeeps, ReleaseKeeps
  <2>6. CASE ClaimLost(w)
    BY <2>6, ClaimLostKeeps
  <2> QED BY <2>1, <2>2, <2>3, <2>4, <2>5, <2>6 DEF WorkerStep
<1>2. CASE CancelProgram
  BY <1>2, CancelKeeps
<1>3. CASE \E o \in ProgramOp : RespondProgram(o) \/ ResolveCall(o)
  BY <1>3, RespondKeeps, ResolveKeeps
<1>4. CASE UNCHANGED programVars
  BY <1>4 DEF programVars, ProgramsInv, ProgramsTypeOK, AttemptsInv, CallsInv, OutcomesInv,
              PerformedInv, Performers, Unstarted, Allowed, SlotsInv, SlotsAccounted,
              UnsettledOps, Holds
<1> QED BY <1>1, <1>2, <1>3, <1>4 DEF ProgramsNext

\* Who may still perform an operation, what was performed and what may yet be started
\* stay within what its record allows, whatever workers, callers and operators do.
THEOREM ProgramsInvariant ==
    ASSUME ProgramsAssumption
    PROVE  ProgramsSpec => []ProgramsInv
<1>1. ProgramsInit => ProgramsInv
  BY ProgramsInvInit
<1>2. ProgramsInv /\ [ProgramsNext]_programVars => ProgramsInv'
  BY ProgramsInvNext
<1> QED BY <1>1, <1>2, PTL DEF ProgramsSpec

\* The stored Run, the attempts and the counts keep the form the code declares.
THEOREM ProgramsTypeCorrect == ProgramsSpec => []ProgramsTypeOK
<1>1. ProgramsInv => ProgramsTypeOK
  BY DEF ProgramsInv
<1> QED BY <1>1, ProgramsAssumption, ProgramsInvariant, PTL

\* A Program can be replayed as often as crashes and suspensions ask for it, with any
\* number of workers: effects that must not be repeated are not, gated ones wait for
\* their approval, a success stands for all effects and a cancellation is final.
THEOREM ProgramsReplaySafely == ProgramsSpec => []ProgramEffects
<1>1. ProgramsInv => ProgramEffects
  <2> SUFFICES ASSUME ProgramsInv PROVE ProgramEffects
    OBVIOUS
  <2>1. ASSUME NEW o \in ProgramOp \ Idempotent
        PROVE  performed[o] <= IF program.resolved[o] = "retry" THEN 2 ELSE 1
    <3>1. /\ IsFiniteSet(Performers(o))
          /\ Cardinality(Performers(o)) + performed[o] + Unstarted(o) <= Allowed(o)
      BY DEF ProgramsInv, PerformedInv
    <3>2. Cardinality(Performers(o)) \in Nat
      BY <3>1, FS_CardinalityType
    <3>3. performed[o] \in Nat /\ Unstarted(o) \in Nat
      BY DEF ProgramsInv, ProgramsTypeOK, Unstarted
    <3> QED BY <3>1, <3>2, <3>3 DEF Allowed
  <2>2. ASSUME NEW o \in Approval, performed[o] > 0
        PROVE  program.waits[o] = "approved"
    BY <2>2, ProgramsAssumption DEF ProgramsAssumption, ProgramsInv, OutcomesInv
  <2>3. ASSUME program.status = "succeeded", NEW o \in ProgramOp
        PROVE  /\ program.ops[o] = "succeeded"
               /\ performed[o] > 0 \/ program.resolved[o] = "recorded"
    BY <2>3 DEF ProgramsInv, OutcomesInv
  <2>4. program.cancelled => program.status \notin {"succeeded", "failed"}
    BY DEF ProgramsInv, OutcomesInv
  <2> QED BY <2>1, <2>2, <2>3, <2>4 DEF ProgramEffects
<1> QED BY <1>1, ProgramsAssumption, ProgramsInvariant, PTL

\* Every unsettled operation has one slot and every slot belongs to one.
THEOREM SlotsAreAccounted == ProgramsSpec => []SlotsAccounted
<1>1. ProgramsInv => SlotsAccounted
  BY DEF ProgramsInv, SlotsInv
<1> QED BY <1>1, ProgramsAssumption, ProgramsInvariant, PTL
=============================================================================
