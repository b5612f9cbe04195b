------------------------------ MODULE Programs ------------------------------
(***************************************************************************)
(* An Agent Program: sandboxed code whose tool and step calls a host       *)
(* executes against a ledger of their own.  A call reserves its operation, *)
(* is authorized, which may suspend the Run for an approval, starts,       *)
(* checks that its claim still holds, has its effect and records what it   *)
(* returned; a later attempt runs the code again and replays what is       *)
(* recorded.  Workers crash, shut down and lose their lease, callers       *)
(* cancel and answer, operators resolve.                                   *)
(* Sources: runtime/program/{runner,authorization,approval}.ts,            *)
(* runtime/execution/{execute-program,run-executor-internal}.ts and        *)
(* runtime/state/store/{program,program-budget,control}.ts.                *)
(*                                                                         *)
(* The code calls every operation once, concurrently, and lets a failure   *)
(* of one end it.  Left out: calls of Agents (fan-outs), logs, budgets     *)
(* other than concurrency, changed inputs and pins, branches, handlers     *)
(* that suspend after they have started, and signals to approval waits.    *)
(***************************************************************************)
EXTENDS Naturals, FiniteSets

CONSTANTS
    ProgramOp,      \* the operations the code calls
    NoOp,
    Idempotent,     \* those whose handler has replay policy "idempotent"
    Approval,       \* those whose authorization suspends for an approval
    Failing,        \* those whose handler may fail
    Decisions,      \* what operators may decide: "succeeded", "failed", "reserved" (retry)
    Concurrency,    \* ProgramBudget.concurrency: slots of concurrent calls
    Worker, NoWorker,
    MortalWorker,   \* workers that may crash, shut down or lose their lease
    MaxProgramFaults \* bound: crashes, shutdowns, lapses, retries

ASSUME ProgramsAssumption ==
    /\ Idempotent \subseteq ProgramOp /\ Approval \subseteq ProgramOp
    /\ Failing \subseteq ProgramOp
    /\ Decisions \subseteq {"succeeded", "failed", "reserved"}
    /\ NoOp \notin ProgramOp /\ NoWorker \notin Worker
    /\ MortalWorker \subseteq Worker
    /\ Concurrency \in Nat /\ MaxProgramFaults \in Nat

VARIABLES
    program,    \* the Run, its waits, operations and slots in the canonical state
    attempts,   \* the execution every worker has under way
    performed,  \* how often the effect of each operation took place
    programFaults

programVars == <<program, attempts, performed, programFaults>>

ProgramEnds == {"succeeded", "failed", "cancelled"}
Unsettled == {"reserved", "running", "waiting"}
ProgramRun ==
    [status : {"running", "cancelling", "waiting", "needs-resolution"} \cup ProgramEnds,
     owner : Worker \cup {NoWorker}, cancelled : BOOLEAN,
     suspension : ProgramOp \cup {NoOp},
     waits : [ProgramOp -> {"absent", "open", "approved", "denied", "cancelled"}],
     ops : [ProgramOp -> {"absent", "succeeded", "failed", "unknown"} \cup Unsettled],
     resolved : [ProgramOp -> {"no", "recorded", "retry"}],
     slots : Nat]
(* What an attempt was started with, and how far each call is.             *)
AttemptRecord ==
    [phase : {"idle", "loading", "calling", "failing", "leaving"},
     suspension : ProgramOp \cup {NoOp}, approved : BOOLEAN, denied : BOOLEAN,
     pc : [ProgramOp -> {"ready", "preparing", "dispatching", "performing", "performed",
                         "unsettled", "returned", "failed", "suspended"}]]
ProgramsTypeOK ==
    /\ program \in ProgramRun
    /\ attempts \in [Worker -> AttemptRecord]
    /\ performed \in [ProgramOp -> Nat]
    /\ programFaults \in Nat

NoAttempt == [phase |-> "idle", suspension |-> NoOp, approved |-> FALSE, denied |-> FALSE,
              pc |-> [o \in ProgramOp |-> "ready"]]
ProgramsInit ==
    /\ program = [status |-> "running", owner |-> NoWorker, cancelled |-> FALSE, suspension |-> NoOp,
                  waits |-> [o \in ProgramOp |-> "absent"],
                  ops |-> [o \in ProgramOp |-> "absent"],
                  resolved |-> [o \in ProgramOp |-> "no"], slots |-> 0]
    /\ attempts = [w \in Worker |-> NoAttempt]
    /\ performed = [o \in ProgramOp |-> 0]
    /\ programFaults = 0

-----------------------------------------------------------------------------
(* Transitions of the stored Run P.                                        *)

HasProgramEnded == program.status \in ProgramEnds
Unresolved(P) == \E o \in ProgramOp : P.ops[o] = "unknown"
\* requireExecutionClaim.  A worker has one attempt of the Run under way, so that
\* owning the Run is having its present fence.
Holds(w) == program.owner = w

\* Mutant: a settlement keeps the slot of its operation.
SlotKept(P, o, status) == [P EXCEPT !.ops[o] = status]
\* Mutant: the slots are not kept from going below zero.
SlotsUnclamped(P, o, status) ==
    [P EXCEPT !.ops[o] = status, !.slots = @ - 1,
              !.status = IF status = "unknown" THEN "needs-resolution" ELSE @]
\* settleProgramOperation, of an operation that has not settled.
OpSettled(P, o, status) ==
    [P EXCEPT !.ops[o] = status,
              !.slots = IF @ = 0 THEN 0 ELSE @ - 1,
              !.status = IF status = "unknown" THEN "needs-resolution" ELSE @]

\* reconcileProgramCancellation: what is not settled fails, open waits close.
ProgramReconciled(P) ==
    [P EXCEPT !.ops = [o \in ProgramOp |-> IF @[o] \in Unsettled THEN "failed" ELSE @[o]],
              !.slots = 0,
              !.waits = [o \in ProgramOp |-> IF @[o] = "open" THEN "cancelled" ELSE @[o]]]

\* complete and fail.
ProgramFinished(P, outcome) ==
    IF ~P.cancelled THEN [P EXCEPT !.status = outcome]
    ELSE IF Unresolved(P) THEN [P EXCEPT !.owner = NoWorker]
    ELSE [ProgramReconciled(P) EXCEPT !.status = "cancelled"]

\* cancel: an execution that holds the Run settles it, else it ends at once,
\* unless an operator has to decide.
ProgramCancelled(P) ==
    LET Q == [ProgramReconciled(P) EXCEPT
                !.cancelled = TRUE,
                !.status = IF P.cancelled \/ @ = "needs-resolution" THEN @ ELSE "cancelling"]
        held == P.owner # NoWorker /\ P.status \in {"running", "cancelling"}
    IN IF held \/ Unresolved(Q) THEN Q ELSE [Q EXCEPT !.status = "cancelled"]

\* suspend, which refuses a wait that has been closed (Reopens).
Reopens(P, o) == P.waits[o] \in {"absent", "open"}
ProgramSuspended(P, o) ==
    [P EXCEPT !.status = "waiting", !.owner = NoWorker, !.suspension = o, !.waits[o] = "open"]

-----------------------------------------------------------------------------
(* Attempts.                                                               *)

InCalls(w, o, pc) == attempts[w].phase = "calling" /\ attempts[w].pc[o] = pc
Goes(w, o, pc) == attempts' = [attempts EXCEPT ![w].pc[o] = pc]
Quits(w) == attempts' = [attempts EXCEPT ![w] = [NoAttempt EXCEPT !.phase = "leaving"]]

ClaimProgram(w) ==
    /\ attempts[w].phase = "idle"
    /\ program.owner = NoWorker /\ program.status \in {"running", "cancelling"}
    /\ program' = [program EXCEPT !.owner = w,
                     !.status = IF program.cancelled THEN "cancelling" ELSE "running"]
    /\ attempts' = [attempts EXCEPT ![w].phase = "loading"]
    /\ UNCHANGED <<performed, programFaults>>

\* executeClaim: a Run that is being cancelled fails without running, otherwise
\* the code starts from its beginning with the response to its last suspension.
LoadProgram(w) ==
    LET o == program.suspension
    IN  /\ attempts[w].phase = "loading"
        /\ IF ~Holds(w) THEN Quits(w)
           ELSE IF program.cancelled THEN attempts' = [attempts EXCEPT ![w].phase = "failing"]
           ELSE attempts' = [attempts EXCEPT ![w].phase = "calling", ![w].suspension = o,
                    ![w].approved = o # NoOp /\ program.waits[o] = "approved",
                    ![w].denied = o # NoOp /\ program.waits[o] = "denied"]
        /\ UNCHANGED <<program, performed, programFaults>>

\* Mutant: an operation that was running is called again whatever its policy.
AfterReservationMutant(w, o) ==
    CASE program.ops[o] = "succeeded" -> "returned"
      [] program.ops[o] = "waiting" /\ attempts[w].suspension # NoOp -> "suspended"
      [] program.ops[o] \in {"absent", "reserved"} -> "preparing"
      [] program.ops[o] = "running" -> "dispatching"
      [] OTHER -> "failed"
\* What a call does with the operation it finds.
AfterReservation(w, o) ==
    CASE program.ops[o] = "succeeded" -> "returned"
      [] program.ops[o] = "waiting" /\ attempts[w].suspension # NoOp -> "suspended"
      [] program.ops[o] \in {"absent", "reserved"} -> "preparing"
      [] program.ops[o] = "running" -> IF o \in Idempotent THEN "dispatching" ELSE "unsettled"
      [] OTHER -> "failed"

\* reserveProgramOperation, and the read of the operation after it: only a
\* cancellation could come between, which the steps after it meet as well.
Reserve(w, o) ==
    LET new == program.ops[o] = "absent"
    IN  /\ InCalls(w, o, "ready")
        /\ IF \/ ~Holds(w) \/ HasProgramEnded
              \/ new /\ program.slots + 1 > Concurrency
           THEN Goes(w, o, "failed") /\ UNCHANGED program
           ELSE /\ Goes(w, o, AfterReservation(w, o))
                /\ program' = IF new THEN [program EXCEPT !.ops[o] = "reserved", !.slots = @ + 1]
                              ELSE program
        /\ UNCHANGED <<performed, programFaults>>

\* Authorization: the last suspension was this call's and was approved, or the
\* handler allows the call without.
MayRun(w, o) == o \notin Approval \/ (attempts[w].suspension = o /\ attempts[w].approved)
Denied(w, o) == attempts[w].suspension = o /\ attempts[w].denied

\* The call ends: its outcome is settled, if the claim holds and nobody settled
\* the operation before.
Settles(w, o, status, pc) ==
    IF Holds(w) /\ program.ops[o] \in Unsettled
    THEN Goes(w, o, pc) /\ program' = OpSettled(program, o, status)
    ELSE Goes(w, o, "failed") /\ UNCHANGED program

Deny(w, o) ==
    /\ InCalls(w, o, "preparing") /\ Denied(w, o)
    /\ Settles(w, o, "failed", "failed")
    /\ UNCHANGED <<performed, programFaults>>

\* suspendProgramOperation: the operation waits whatever its status was.
SuspendCall(w, o) ==
    /\ InCalls(w, o, "preparing") /\ ~Denied(w, o) /\ ~MayRun(w, o)
    /\ IF Holds(w) /\ ~HasProgramEnded /\ Reopens(program, o)
       THEN /\ Goes(w, o, "suspended")
            /\ program' = [ProgramSuspended(program, o) EXCEPT !.ops[o] = "waiting"]
       ELSE Goes(w, o, "failed") /\ UNCHANGED program
    /\ UNCHANGED <<performed, programFaults>>

\* startProgramOperation of an authorized call; what it returns is not looked at.
StartCall(w, o) ==
    /\ InCalls(w, o, "preparing") /\ ~Denied(w, o) /\ MayRun(w, o)
    /\ IF Holds(w)
       THEN /\ Goes(w, o, "dispatching")
            /\ program' = [program EXCEPT !.ops[o] = IF @ = "reserved" THEN "running" ELSE @]
       ELSE Goes(w, o, "failed") /\ UNCHANGED program
    /\ UNCHANGED <<performed, programFaults>>

\* The check before the handler runs.
Dispatch(w, o) ==
    /\ InCalls(w, o, "dispatching")
    /\ Goes(w, o, IF Holds(w) /\ ~program.cancelled THEN "performing" ELSE "failed")
    /\ UNCHANGED <<program, performed, programFaults>>

\* The effect, also of a worker that has lost its claim since.
PerformCall(w, o) ==
    /\ InCalls(w, o, "performing")
    /\ Goes(w, o, "performed")
    /\ performed' = [performed EXCEPT ![o] = @ + 1]
    /\ UNCHANGED <<program, programFaults>>

ReturnCall(w, o) ==
    /\ InCalls(w, o, "performed")
    /\ Settles(w, o, "succeeded", "returned")
    /\ UNCHANGED <<performed, programFaults>>

FailCall(w, o) ==
    /\ o \in Failing
    /\ InCalls(w, o, "performing") \/ InCalls(w, o, "performed")
    /\ Settles(w, o, "failed", "failed")
    /\ UNCHANGED <<performed, programFaults>>

\* A running operation that may not be repeated has an unknown outcome.
SettleUnknown(w, o) ==
    /\ InCalls(w, o, "unsettled")
    /\ Settles(w, o, "unknown", "failed")
    /\ UNCHANGED <<performed, programFaults>>

ProgramCallStep(w) ==
    \E o \in ProgramOp :
        \/ Reserve(w, o) \/ Deny(w, o) \/ SuspendCall(w, o)
        \/ StartCall(w, o) \/ Dispatch(w, o) \/ PerformCall(w, o)
        \/ ReturnCall(w, o) \/ FailCall(w, o) \/ SettleUnknown(w, o)

-----------------------------------------------------------------------------
(* How an attempt ends.                                                    *)

EndsAs(w, outcome) ==
    /\ Quits(w)
    /\ program' = IF Holds(w) /\ ~HasProgramEnded THEN ProgramFinished(program, outcome)
                  ELSE program
    /\ UNCHANGED <<performed, programFaults>>

CompleteProgram(w) ==
    /\ attempts[w].phase = "calling"
    /\ \A o \in ProgramOp : attempts[w].pc[o] = "returned"
    /\ EndsAs(w, "succeeded")

\* A call failed: the other calls are interrupted where they
\* are, and the Run fails, unless an operator has to look at it.
ThrowProgram(w) ==
    /\ attempts[w].phase = "calling"
    /\ \E o \in ProgramOp : attempts[w].pc[o] = "failed"
    /\ IF program.status = "needs-resolution"
       THEN Quits(w) /\ UNCHANGED <<program, performed, programFaults>>
       ELSE EndsAs(w, "failed")

\* A call suspended: the other calls are interrupted as well, and the Run
\* suspends unless it already waits.
LeaveSuspended(w) ==
    LET o == attempts[w].suspension
    IN  /\ attempts[w].phase = "calling"
        /\ \E call \in ProgramOp : attempts[w].pc[call] = "suspended"
        /\ Quits(w)
        /\ program' = IF /\ program.status \notin {"needs-resolution", "waiting"}
                         /\ Holds(w) /\ ~HasProgramEnded /\ o # NoOp /\ Reopens(program, o)
                      THEN ProgramSuspended(program, o) ELSE program
        /\ UNCHANGED <<performed, programFaults>>

\* A cancellation interrupts the execution, which then fails its Run.
InterruptProgram(w) ==
    /\ attempts[w].phase = "calling" /\ program.cancelled
    /\ attempts' = [attempts EXCEPT ![w] = [NoAttempt EXCEPT !.phase = "failing"]]
    /\ UNCHANGED <<program, performed, programFaults>>
FailProgram(w) == attempts[w].phase = "failing" /\ EndsAs(w, "failed")

ReleaseProgram(w) ==
    /\ attempts[w].phase = "leaving"
    /\ attempts' = [attempts EXCEPT ![w] = NoAttempt]
    /\ program' = IF Holds(w) THEN [program EXCEPT !.owner = NoWorker] ELSE program
    /\ UNCHANGED <<performed, programFaults>>

ProgramFault == programFaults < MaxProgramFaults /\ programFaults' = programFaults + 1
\* A worker shuts down or crashes: nothing is settled, and the claim ends with its
\* release or its lease.
StopWorker(w) ==
    /\ w \in MortalWorker /\ ProgramFault
    /\ attempts[w].phase \notin {"idle", "leaving"}
    /\ Quits(w)
    /\ UNCHANGED <<program, performed>>
ClaimLost(w) ==
    /\ w \in MortalWorker /\ ProgramFault
    /\ Holds(w)
    /\ program' = [program EXCEPT !.owner = NoWorker]
    /\ UNCHANGED <<attempts, performed>>

-----------------------------------------------------------------------------
(* Callers and operators.                                                  *)

CancelProgram ==
    /\ ~HasProgramEnded
    /\ program' = ProgramCancelled(program)
    /\ UNCHANGED <<attempts, performed, programFaults>>

Answerable(o) == ~HasProgramEnded /\ ~program.cancelled /\ program.waits[o] = "open"
\* Mutant: the operation keeps waiting.
AnsweredOnly(P, o, answer) == [P EXCEPT !.waits[o] = answer, !.status = "running"]
\* respond: the operation that waits is reserved again.
Answered(P, o, answer) ==
    [P EXCEPT !.waits[o] = answer, !.status = "running",
              !.ops[o] = IF @ = "waiting" THEN "reserved" ELSE @]
RespondProgram(o) ==
    /\ Answerable(o)
    /\ \E answer \in {"approved", "denied"} : program' = Answered(program, o, answer)
    /\ UNCHANGED <<attempts, performed, programFaults>>
\* An operation is resolved once, and retries count as faults.  The Runtime's resolve applies a cancellation
\* that was requested meanwhile again, the operator's resolveUnknown does not.
ResolveCall(o) ==
    /\ program.status = "needs-resolution"
    /\ program.ops[o] = "unknown" /\ program.resolved[o] = "no"
    /\ \E status \in Decisions, byOperator \in BOOLEAN :
        LET Q == [program EXCEPT !.ops[o] = status, !.owner = NoWorker,
                    !.resolved[o] = IF status = "reserved" THEN "retry" ELSE "recorded"]
            P == [Q EXCEPT !.status = IF Unresolved(Q) THEN "needs-resolution"
                                      ELSE IF program.cancelled THEN "cancelling" ELSE "running"]
        IN  /\ program' = IF program.cancelled /\ ~byOperator THEN ProgramCancelled(P) ELSE P
            /\ IF status = "reserved" THEN ProgramFault ELSE UNCHANGED programFaults
    /\ UNCHANGED <<attempts, performed>>

-----------------------------------------------------------------------------
WorkerStep(w) ==
    \/ ClaimProgram(w) \/ LoadProgram(w) \/ ProgramCallStep(w) \/ CompleteProgram(w)
    \/ ThrowProgram(w) \/ LeaveSuspended(w) \/ InterruptProgram(w) \/ FailProgram(w)
    \/ ReleaseProgram(w)
ProgramsNext ==
    \/ \E w \in Worker : WorkerStep(w) \/ StopWorker(w) \/ ClaimLost(w)
    \/ CancelProgram
    \/ \E o \in ProgramOp : RespondProgram(o) \/ ResolveCall(o)
ProgramsSpec == ProgramsInit /\ [][ProgramsNext]_programVars
\* Workers sweep and go on, and handlers return.
ProgramsFairness == \A w \in Worker : WF_programVars(WorkerStep(w))

-----------------------------------------------------------------------------
(* Properties.                                                             *)

\* The code can be replayed as often as crashes and suspensions ask for it: an
\* effect that must not be repeated takes place once, or twice if an operator
\* resolved it to a retry; a gated one never before its approval; a Program that
\* succeeded had every effect, or an operator vouched for it; and a Program whose
\* cancellation was accepted neither succeeds nor fails.
ProgramEffects ==
    /\ \A o \in ProgramOp \ Idempotent :
            performed[o] <= IF program.resolved[o] = "retry" THEN 2 ELSE 1
    /\ \A o \in Approval : performed[o] > 0 => program.waits[o] = "approved"
    /\ program.status = "succeeded" =>
            \A o \in ProgramOp : /\ program.ops[o] = "succeeded"
                                 /\ performed[o] > 0 \/ program.resolved[o] = "recorded"
    /\ program.cancelled => program.status \notin {"succeeded", "failed"}

\* Every slot belongs to an operation that has not settled and every such
\* operation has one, through suspensions, replays and crashes, so that calls
\* within the budget are not refused; unless an operator retried an operation, whose
\* slot had been released, or the Run is cancelled, which frees them all.
SlotsAccounted ==
    \/ program.slots = Cardinality({o \in ProgramOp : program.ops[o] \in Unsettled})
    \/ program.cancelled \/ \E o \in ProgramOp : program.resolved[o] = "retry"

\* A Program ends, or waits for somebody: for the answer to an open wait, for the
\* resolution of an operation, as long as workers sweep and handlers return.
\* Excluded are Runs the code itself strands: one that a response took out of
\* needs-resolution before it was cancelled cannot be resolved any more.
ProgramSettled ==
    \/ HasProgramEnded
    \/ program.status = "waiting" /\ \E o \in ProgramOp : program.waits[o] = "open"
    \/ program.status = "needs-resolution" /\ Unresolved(program)
    \/ program.cancelled /\ Unresolved(program)
ProgramsSettle == []<>ProgramSettled
=============================================================================
