------------------------------- MODULE Awaits -------------------------------
(***************************************************************************)
(* The durable waits of a family of Runs: a Run suspends on the await      *)
(* calls of its batch, for an external event or for messages and the end   *)
(* of other Runs, and is resumed by a wake, an arriving message, a Run     *)
(* that settles, or a timeout the schedulers find.  Sources:               *)
(* runtime/state/store/{trigger/wake,control/wait,control/run-wait,        *)
(* control/suspend,steering,admission/terminal}.ts, runtime/state/append.ts*)
(* and runtime/execution/trigger/scheduler.ts.                             *)
(*                                                                         *)
(* Left out: what is awaited besides (approvals are in Operations, child   *)
(* and group waits in Ownership and FanOuts), capacities and sizes of the  *)
(* inbox, and the reuse of an answered await command by a later call.      *)
(***************************************************************************)
EXTENDS Naturals, Sequences, FiniteSets

CONSTANTS
    FamilyRun,      \* the Runs of one execution family
    AwaitCall,      \* the authored await calls
    CallOf,         \* CallOf[w]: the Run that makes the call
    Selector,       \* Selector[w]: the events, Runs and messages it awaits
    Event,          \* external events, named by their dedupe keys
    Inbound,        \* messages to Runs of the family
    InboundTo,      \* InboundTo[m]: the Run it is sent to
    Scheduler,      \* scheduler activations
    TimeoutBatch,   \* waits a scheduler times out at once
    MaxAwaitFaults  \* bound: executions lost, Runs cancelled

ASSUME AwaitsAssumption ==
    /\ CallOf \in [AwaitCall -> FamilyRun]
    /\ Selector \in [AwaitCall -> [events : SUBSET Event, runs : SUBSET FamilyRun,
                                   messages : BOOLEAN]]
    /\ InboundTo \in [Inbound -> FamilyRun]
    /\ Event \cap (FamilyRun \cup Inbound \cup {"nobody", "timeout"}) = {}
    /\ FamilyRun \cap Inbound = {}
    /\ TimeoutBatch \in Nat \ {0} /\ MaxAwaitFaults \in Nat

VARIABLES
    family,     \* the record of each Run
    waits,      \* waits[w]: the stored wait of a call and what resolved it
    wakes,      \* the receipts of wake commands: (Run, dedupe key)
    inbox,      \* the inbox entry of each message and what consumed it
    execution,  \* what an executing Run knows: answered calls, messages read
    elapsed,    \* waits whose deadline has passed, in the order of deadlines
    due,        \* the waits each scheduler is about to time out
    awaitFaults

awaitVars == <<family, waits, wakes, inbox, execution, elapsed, due, awaitFaults>>

CallsBy(r) == {w \in AwaitCall : CallOf[w] = r}
AwaitsRuns(w) == Selector[w].events = {}

AwaitsTypeOK ==
    /\ family \in [FamilyRun ->
        [status : {"running", "waiting", "ended"}, owned : BOOLEAN, cancelled : BOOLEAN,
         stage : {"batch", "turn"}]]
    /\ waits \in [AwaitCall ->
        [status : {"absent", "open", "responded", "cancelled"},
         by : {"nobody", "timeout"} \cup Event \cup FamilyRun \cup Inbound]]
    /\ wakes \subseteq FamilyRun \X Event
    /\ inbox \in [Inbound ->
        [status : {"absent", "pending", "consumed", "discarded"},
         by : SUBSET ({"turn"} \cup AwaitCall)]]
    /\ execution \in [FamilyRun -> [answered : SUBSET AwaitCall, read : SUBSET Inbound]]
    /\ elapsed \in Seq(AwaitCall)
    /\ due \in [Scheduler -> SUBSET AwaitCall]
    /\ awaitFaults \in 0..MaxAwaitFaults

NotExecuting == [answered |-> {}, read |-> {}]

AwaitsInit ==
    /\ family = [r \in FamilyRun |-> [status |-> "running", owned |-> FALSE,
                                      cancelled |-> FALSE, stage |-> "batch"]]
    /\ waits = [w \in AwaitCall |-> [status |-> "absent", by |-> "nobody"]]
    /\ wakes = {}
    /\ inbox = [m \in Inbound |-> [status |-> "absent", by |-> {}]]
    /\ execution = [r \in FamilyRun |-> NotExecuting]
    /\ elapsed = <<>>
    /\ due = [s \in Scheduler |-> {}]
    /\ awaitFaults = 0

-----------------------------------------------------------------------------
(* Transitions of the store that several commands share.                   *)

IsOpen(w) == waits[w].status = "open"
Responded(by) == [status |-> "responded", by |-> by]
\* closeWait and the Resumed event: the Run runs, whatever it was.
Answer(w, by) ==
    /\ waits' = [waits EXCEPT ![w] = Responded(by)]
    /\ family' = [family EXCEPT ![CallOf[w]].status = "running"]

PendingFor(r, box) == {m \in Inbound : InboundTo[m] = r /\ box[m].status = "pending"}

\* Mutant: the consumed message stays pending.
ConsumedMutant(entry, by) == [entry EXCEPT !.by = @ \cup by]
\* A pending message is consumed, by a turn or by the calls it answers.
Consumed(entry, by) == [status |-> "consumed", by |-> entry.by \cup by]

\* reconcileRunWaits for the Runs of R: each open wait for Runs takes a pending
\* message if it awaits one, or else a Run that has ended.  The arguments are the
\* waits, the inbox and the family as the command has left them so far.
ReconcileWaits(R, ws, box, fam) ==
    LET open == {w \in AwaitCall : /\ CallOf[w] \in R /\ AwaitsRuns(w)
                                   /\ ws[w].status = "open" /\ ~fam[CallOf[w]].cancelled}
        messages(w) == IF Selector[w].messages THEN PendingFor(CallOf[w], box) ELSE {}
        ended(w) == {t \in Selector[w].runs : fam[t].status = "ended"}
        chosen(w) == IF messages(w) # {} THEN messages(w) ELSE ended(w)
        closing == {w \in open : chosen(w) # {}}
        by == [w \in closing |-> CHOOSE x \in chosen(w) : TRUE]
    IN  /\ waits' = [w \in AwaitCall |-> IF w \in closing THEN Responded(by[w]) ELSE ws[w]]
        /\ inbox' = [m \in Inbound |->
                IF \E w \in closing : by[w] = m
                THEN Consumed(box[m], {w \in closing : by[w] = m})
                ELSE box[m]]
        /\ family' = [r \in FamilyRun |->
                IF \E w \in closing : CallOf[w] = r THEN [fam[r] EXCEPT !.status = "running"]
                ELSE fam[r]]

\* Mutant: nobody is told.
WaitingRunsMutant(fam) == {}
WaitingRuns(fam) == {r \in FamilyRun : fam[r].status = "waiting"}

\* A Run settles: its unread messages are discarded, and the waiting Runs of the
\* family are reconciled.  Only a cancellation has closed its open waits.
EndRun(r, ws) ==
    LET fam == [family EXCEPT ![r] = [@ EXCEPT !.status = "ended", !.owned = FALSE]]
        box == [m \in Inbound |-> IF m \in PendingFor(r, inbox)
                                  THEN [inbox[m] EXCEPT !.status = "discarded"] ELSE inbox[m]]
    IN  /\ ReconcileWaits(WaitingRuns(fam), ws, box, fam)
        /\ execution' = [execution EXCEPT ![r] = NotExecuting]

Leaves(r) ==
    /\ family' = [family EXCEPT ![r].owned = FALSE]
    /\ execution' = [execution EXCEPT ![r] = NotExecuting]

-----------------------------------------------------------------------------
(* The execution of a Run: an authored batch of await calls, then turns.    *)

Execute(r) ==
    /\ family[r].status = "running" /\ ~family[r].owned
    /\ family' = [family EXCEPT ![r].owned = TRUE]
    /\ execution' = [execution EXCEPT ![r] =
            [NotExecuting EXCEPT !.answered = {w \in CallsBy(r) : waits[w].status = "responded"}]]
    /\ UNCHANGED <<waits, wakes, inbox, elapsed, due, awaitFaults>>

AtWork(r) == family[r].owned /\ family[r].status = "running"
AtTurn(r) == AtWork(r) /\ family[r].stage = "turn"

\* readSteering; to have read an empty inbox is to have read nothing.
ReadInbox(r) ==
    /\ AtTurn(r) /\ execution[r].read = {} /\ PendingFor(r, inbox) # {}
    /\ execution' = [execution EXCEPT ![r].read = PendingFor(r, inbox)]
    /\ UNCHANGED <<family, waits, wakes, inbox, elapsed, due, awaitFaults>>

\* recordOperation of the model turn consumes the messages read, if they are
\* still pending, and is refused while the Run is being cancelled.
RecordTurn(r) ==
    LET read == execution[r].read
    IN  /\ AtTurn(r) /\ read # {}
        /\ IF family[r].cancelled \/ ~(read \subseteq PendingFor(r, inbox))
           THEN Leaves(r) /\ UNCHANGED <<waits, inbox>>
           ELSE /\ inbox' = [m \in Inbound |->
                        IF m \in read THEN Consumed(inbox[m], {"turn"}) ELSE inbox[m]]
                /\ execution' = [execution EXCEPT ![r].read = {}]
                /\ UNCHANGED <<family, waits>>
        /\ UNCHANGED <<wakes, elapsed, due, awaitFaults>>

\* The batch suspends on the calls it has no answer for.  A wait that got its
\* answer since the execution began cannot be reopened, and a Run has one open wait
\* for Runs at most (validateRunWaitIdentity): the execution ends.
SuspendOn(r) ==
    LET asked == CallsBy(r) \ execution[r].answered
        opened == [w \in AwaitCall |->
            IF w \in asked THEN [status |-> "open", by |-> "nobody"] ELSE waits[w]]
    IN  /\ AtWork(r) /\ family[r].stage = "batch" /\ asked # {}
        /\ IF \/ \E w \in asked : waits[w].status \notin {"absent", "open"}
              \/ \E v, w \in asked : v # w /\ AwaitsRuns(v) /\ AwaitsRuns(w)
           THEN Leaves(r) /\ UNCHANGED <<waits, inbox>>
           ELSE /\ ReconcileWaits({r}, opened, inbox,
                      [family EXCEPT ![r] = [@ EXCEPT !.status = "waiting", !.owned = FALSE]])
                /\ execution' = [execution EXCEPT ![r] = NotExecuting]
        /\ UNCHANGED <<wakes, elapsed, due, awaitFaults>>

BatchDone(r) ==
    /\ AtWork(r) /\ family[r].stage = "batch" /\ CallsBy(r) \subseteq execution[r].answered
    /\ family' = [family EXCEPT ![r].stage = "turn"]
    /\ UNCHANGED <<waits, wakes, inbox, execution, elapsed, due, awaitFaults>>

\* The Run completes after a turn, or fails at any point, or its
\* cancellation is settled; a failure leaves its other waits open.
Ends(r) ==
    /\ AtWork(r)
    /\ EndRun(r, waits)
    /\ UNCHANGED <<wakes, elapsed, due, awaitFaults>>

\* The host of the execution is lost.
LoseExecution(r) ==
    /\ family[r].owned /\ awaitFaults < MaxAwaitFaults
    /\ awaitFaults' = awaitFaults + 1
    /\ Leaves(r)
    /\ UNCHANGED <<waits, wakes, inbox, elapsed, due>>

-----------------------------------------------------------------------------
(* Callers and schedulers.                                                 *)

\* wake: an event is received once, and answers the open wait it matches, if any.
Wake(r, e) ==
    /\ family[r].status # "ended" /\ <<r, e>> \notin wakes
    /\ wakes' = wakes \cup {<<r, e>>}
    /\ LET matching == {w \in CallsBy(r) : IsOpen(w) /\ e \in Selector[w].events}
       IN IF matching = {} THEN UNCHANGED <<family, waits>>
          ELSE \E w \in matching : Answer(w, e)
    /\ UNCHANGED <<inbox, execution, elapsed, due, awaitFaults>>

\* admitSteering.
Send(m) ==
    LET r == InboundTo[m]
    IN  /\ inbox[m].status = "absent" /\ family[r].status # "ended"
        /\ ReconcileWaits({r}, waits, [inbox EXCEPT ![m].status = "pending"], family)
        /\ UNCHANGED <<wakes, execution, elapsed, due, awaitFaults>>

\* cancel closes the open waits; a Run nobody executes ends at once.
CancelFamilyRun(r) ==
    LET ws == [w \in AwaitCall |-> IF CallOf[w] = r /\ IsOpen(w)
                                   THEN [waits[w] EXCEPT !.status = "cancelled"] ELSE waits[w]]
    IN  /\ family[r].status # "ended" /\ awaitFaults < MaxAwaitFaults
        /\ awaitFaults' = awaitFaults + 1
        /\ IF family[r].owned
           THEN /\ waits' = ws
                /\ family' = [family EXCEPT ![r].cancelled = TRUE]
                /\ UNCHANGED <<inbox, execution>>
           ELSE EndRun(r, ws)
        /\ UNCHANGED <<wakes, elapsed, due>>

\* Mutant: waits that are closed keep their place in the batch.
OverdueMutant == DOMAIN elapsed
Overdue == {k \in DOMAIN elapsed : IsOpen(elapsed[k])}
Elapses(w) ==
    /\ IsOpen(w) /\ ~(\E k \in DOMAIN elapsed : elapsed[k] = w)
    /\ elapsed' = Append(elapsed, w)
    /\ UNCHANGED <<family, waits, wakes, inbox, execution, due, awaitFaults>>

\* dueAwaitEvents: the first open waits whose deadline has passed, also of Runs
\* that have ended.
DueWaits ==
    {elapsed[k] : k \in {k \in Overdue : Cardinality({j \in Overdue : j <= k}) <= TimeoutBatch}}

Tick(s) ==
    /\ due[s] = {} /\ DueWaits # {}
    /\ due' = [due EXCEPT ![s] = DueWaits]
    /\ UNCHANGED <<family, waits, wakes, inbox, execution, elapsed, awaitFaults>>

\* timeoutAwaitEvent; for an ended Run it fails, which the scheduler ignores.
TimeOut(s, w) ==
    /\ w \in due[s]
    /\ due' = [due EXCEPT ![s] = @ \ {w}]
    /\ IF family[CallOf[w]].status # "ended" /\ IsOpen(w)
       THEN Answer(w, "timeout") ELSE UNCHANGED <<family, waits>>
    /\ UNCHANGED <<wakes, inbox, execution, elapsed, awaitFaults>>

SchedulerStep(s) == Tick(s) \/ \E w \in AwaitCall : TimeOut(s, w)
ExecutionStep(r) ==
    Execute(r) \/ ReadInbox(r) \/ RecordTurn(r) \/ SuspendOn(r) \/ BatchDone(r) \/ Ends(r)

AwaitsNext ==
    \/ \E r \in FamilyRun : \/ ExecutionStep(r) \/ LoseExecution(r) \/ CancelFamilyRun(r)
                            \/ \E e \in Event : Wake(r, e)
    \/ \E m \in Inbound : Send(m)
    \/ \E w \in AwaitCall : Elapses(w)
    \/ \E s \in Scheduler : SchedulerStep(s)

AwaitsSpec == AwaitsInit /\ [][AwaitsNext]_awaitVars

-----------------------------------------------------------------------------
(* Properties.                                                             *)

\* A Run that waits has an open wait, and what it waits for has not happened: no
\* Run it awaits has ended and no message it awaits is pending, in whatever order
\* suspensions, settlements and messages are committed.
NothingMissedWhileWaiting ==
    \A r \in FamilyRun : family[r].status = "waiting" /\ ~family[r].cancelled =>
        /\ \E w \in CallsBy(r) : IsOpen(w)
        /\ \A w \in CallsBy(r) : IsOpen(w) /\ AwaitsRuns(w) =>
            /\ \A t \in Selector[w].runs : family[t].status # "ended"
            /\ Selector[w].messages => PendingFor(r, inbox) = {}

\* A message reaches its Run once, in a turn or as the answer of a wait, and an
\* event answers one wait of a Run: also when executions are lost and repeated.
DeliveredOnce ==
    /\ \A m \in Inbound : Cardinality(inbox[m].by) = IF inbox[m].status = "consumed" THEN 1 ELSE 0
    /\ \A r \in FamilyRun, e \in Event :
        Cardinality({w \in CallsBy(r) : waits[w].by = e}) <= 1

\* Nothing is lost between a Run and what it waits for, and nothing comes twice:
\* both of the above.
WaitsAreServed == NothingMissedWhileWaiting /\ DeliveredOnce

\* No wait whose deadline has passed stays open; unless its Run has ended, or the
\* waits that failed Runs left open fill the batch of the schedulers for good.
WaitsTimeOut ==
    []<>\/ \A k \in Overdue : family[CallOf[elapsed[k]]].status = "ended"
        \/ \A w \in DueWaits : family[CallOf[w]].status = "ended"
=============================================================================
