---------------------------- MODULE SessionQueue ----------------------------
(***************************************************************************)
(* The conversational queue of one hosted root Session: accepted inputs    *)
(* wait in the queue, are promoted to Runs of their own when the lane of   *)
(* the Session is free, or are steered into the active Run; what a Run     *)
(* leaves unread goes back to the front of the queue.  Runs started beside *)
(* the queue share the lane.  The Session is stopped, resumed and closed.  *)
(* Sources: runtime/state/store/host-session/{queue,lifecycle}.ts and      *)
(* runtime/state/store/admission/{terminal,lanes,activation,accept}.ts.    *)
(*                                                                         *)
(* Every store command is one action; the receipts of repeated commands    *)
(* are those of the Journal.  Left out: child Sessions and their           *)
(* continuation grants, budgets (an exhausted one keeps the input queued), *)
(* Agent selections, edits of a queued input, and descendants of the Runs. *)
(***************************************************************************)
EXTENDS Naturals, Sequences, FiniteSets

CONSTANTS
    Input,          \* command ids of submitted inputs and messages
    Started,        \* Runs started on the Session beside its queue
    Prepared,       \* those of them that are admitted without activation
    NoRun,
    QueueLimit,     \* 64 retained inputs
    MaxStops        \* bound: stops, and releases of a claimed Run

ASSUME SessionQueueAssumption ==
    /\ Prepared \subseteq Started /\ Input \cap Started = {}
    /\ NoRun \notin Input \cup Started
    /\ QueueLimit \in Nat /\ MaxStops \in Nat

\* A promoted input has the Run its promotion id names: at most one.
SessionRun == Input \cup Started

VARIABLES
    session,    \* queue, lane, active Run and lifecycle of the Session, and its Runs
    accepted,   \* the inputs whose command was accepted
    removed,    \* those that were removed from the queue
    stops

queueVars == <<session, accepted, removed, stops>>

RunRecord ==
    [status : {"none", "queued", "running", "finishing", "ended"},
     cancelled : BOOLEAN, owned : BOOLEAN,
     steering : Seq(Input), consumed : SUBSET Input]

QueueTypeOK ==
    /\ session.queue \in Seq(Input)
    /\ session.lane \in Seq(SessionRun)
    /\ session.active \in SessionRun \cup {NoRun}
    /\ session.lifecycle \in {"open", "stopped", "closed"}
    /\ session.runs \in [SessionRun -> RunRecord]
    /\ removed \subseteq accepted /\ accepted \subseteq Input
    /\ stops \in 0..MaxStops

QueueInit ==
    /\ session =
        [queue |-> <<>>, lane |-> <<>>, active |-> NoRun, lifecycle |-> "open",
         runs |-> [r \in SessionRun |->
            [status |-> "none", cancelled |-> FALSE, owned |-> FALSE,
             steering |-> <<>>, consumed |-> {}]]]
    /\ accepted = {} /\ removed = {}
    /\ stops = 0

-----------------------------------------------------------------------------
(* Transitions of the store that several commands share, as functions of   *)
(* the Session.                                                            *)

Positions(inputs, i) == {k \in DOMAIN inputs : inputs[k] = i}

Live(s, r) == s.runs[r].status \in {"queued", "running", "finishing"}

\* removeFromLane: the others keep their order.
Without(lane, gone) ==
    LET kept == {k \in DOMAIN lane : lane[k] \notin gone}
        Place(k) == Cardinality({j \in kept : j <= k})
    IN [i \in 1 .. Cardinality(kept) |-> lane[CHOOSE k \in kept : Place(k) = i]]

\* promoteHead: the head of the lane becomes the active Run, whether another Run
\* is active or not.
MayStart(s, r) ==
    /\ s.lifecycle = "open" /\ s.lane # <<>> /\ r = Head(s.lane)
    /\ s.runs[r].status = "queued" /\ ~s.runs[r].cancelled
Begun(s, r) == [s EXCEPT !.runs[r].status = "running", !.active = r]
PromoteHead(s) ==
    IF \E r \in SessionRun : MayStart(s, r)
    THEN Begun(s, CHOOSE r \in SessionRun : MayStart(s, r))
    ELSE s

\* admitSend: the Run joins the lane, and starts at once if it is the head.
AdmitRun(s, r, activate) ==
    LET queued == [s EXCEPT !.lane = Append(@, r), !.runs[r].status = "queued"]
    IN IF activate /\ s.lane = <<>> THEN PromoteHead(queued) ELSE queued

\* Mutant: the input stays in the queue.
PromoteMutant(s) ==
    IF s.lifecycle = "open" /\ s.queue # <<>> /\ s.active = NoRun /\ s.lane = <<>>
    THEN [AdmitRun(s, Head(s.queue), TRUE) EXCEPT !.active = Head(s.queue)]
    ELSE s
\* promote: the first input gets its Run when the Session is idle.
Promote(s) ==
    IF s.lifecycle = "open" /\ s.queue # <<>> /\ s.active = NoRun /\ s.lane = <<>>
    THEN [AdmitRun([s EXCEPT !.queue = Tail(@)], Head(s.queue), TRUE)
            EXCEPT !.active = Head(s.queue)]
    ELSE s

\* What is left of a Run that settled.
Ended(run) == [run EXCEPT !.status = "ended", !.owned = FALSE, !.steering = <<>>]

\* Mutant: nothing is promoted when a Run settles.
SettledMutant(s, r) ==
    [s EXCEPT !.lane = Without(@, {r}), !.runs[r] = Ended(@),
              !.queue = IF s.active = r THEN s.runs[r].steering \o @ ELSE @,
              !.active = IF @ = r THEN NoRun ELSE @]
\* A Run settles.  afterTerminal: the lane moves on, and what the active Run was
\* sent and did not consume is queued again.
Settled(s, r) ==
    LET left == [s EXCEPT !.lane = Without(@, {r}), !.runs[r] = Ended(@)]
        freed == IF s.active = r
                 THEN [left EXCEPT !.active = NoRun, !.queue = s.runs[r].steering \o @]
                 ELSE left
    IN Promote(PromoteHead(freed))

Busy(s, r) == s.runs[r].owned \/ s.runs[r].status = "finishing"

\* cancel: a Run nobody executes, and that waits for no descendant, settles.
Cancelled(s, r) ==
    LET asked == [s EXCEPT !.runs[r].cancelled = TRUE]
    IN IF Busy(s, r) THEN asked ELSE Settled(asked, r)

\* validateQueue.
Retained(s) == Len(s.queue) + IF s.active = NoRun THEN 0 ELSE Len(s.runs[s.active].steering)

-----------------------------------------------------------------------------
(* Callers.                                                                *)

Submit(i) ==
    /\ i \notin accepted
    /\ session.lifecycle # "closed" /\ Retained(session) < QueueLimit
    /\ accepted' = accepted \cup {i}
    /\ session' = Promote([session EXCEPT !.queue = Append(@, i)])
    /\ UNCHANGED <<removed, stops>>

\* A message is steered into the active Run if that can still read it.
Message(i) ==
    LET active == session.active
        steerable == /\ session.lifecycle = "open" /\ active # NoRun
                     /\ session.runs[active].status \in {"queued", "running"}
                     /\ ~session.runs[active].cancelled
    IN  /\ i \notin accepted
        /\ session.lifecycle # "closed" /\ Retained(session) < QueueLimit
        /\ accepted' = accepted \cup {i}
        /\ session' = IF steerable
                      THEN [session EXCEPT !.runs[active].steering = Append(@, i)]
                      ELSE Promote([session EXCEPT !.queue = Append(@, i)])
        /\ UNCHANGED <<removed, stops>>

Remove(i) ==
    /\ session.lifecycle # "closed"
    /\ \E k \in Positions(session.queue, i) :
            session' = [session EXCEPT !.queue = SubSeq(@, 1, k - 1) \o SubSeq(@, k + 1, Len(@))]
    /\ removed' = removed \cup {i}
    /\ UNCHANGED <<accepted, stops>>

\* start with the Session's id, also of a schedule that fires; a prepared Run is
\* admitted without activation.
Start(r) ==
    /\ r \in Started /\ session.runs[r].status = "none"
    /\ session' = AdmitRun(session, r, r \notin Prepared)
    /\ UNCHANGED <<accepted, removed, stops>>

Activate(r) ==
    /\ session.runs[r].status = "queued" /\ ~session.runs[r].cancelled
    /\ session.active \in {NoRun, r}
    /\ session' = [session EXCEPT !.runs[r].status = "running", !.active = r]
    /\ UNCHANGED <<accepted, removed, stops>>

CancelRun(r) ==
    /\ Live(session, r) /\ ~session.runs[r].cancelled
    /\ session' = Cancelled(session, r)
    /\ UNCHANGED <<accepted, removed, stops>>

\* control("stop" or "close"): promotion is fenced before the Runs are cancelled,
\* so that cancelling them one by one is cancelling all of them: those that nobody
\* executes and that wait for no descendant settle.
Halt(lifecycle) ==
    LET gone == {r \in SessionRun : Live(session, r) /\ ~Busy(session, r)}
    IN  /\ session.lifecycle # "closed" /\ stops < MaxStops
        /\ stops' = stops + 1
        /\ session' = [session EXCEPT
                !.lifecycle = lifecycle,
                !.lane = Without(@, gone),
                !.queue = IF session.active \in gone
                          THEN session.runs[session.active].steering \o @ ELSE @,
                !.active = IF @ \in gone THEN NoRun ELSE @,
                !.runs = [r \in SessionRun |->
                            IF r \in gone THEN [Ended(session.runs[r]) EXCEPT !.cancelled = TRUE]
                            ELSE [session.runs[r] EXCEPT !.cancelled = @ \/ Live(session, r)]]]
        /\ UNCHANGED <<accepted, removed>>

Resume ==
    /\ session.lifecycle = "stopped"
    /\ session' = Promote([session EXCEPT !.lifecycle = "open"])
    /\ UNCHANGED <<accepted, removed, stops>>

-----------------------------------------------------------------------------
(* The execution of the Session's Runs.                                    *)

\* claimExecution is refused while the Session is halted, but for cancellation.
ClaimRun(r) ==
    /\ session.runs[r].status = "running" /\ ~session.runs[r].owned
    /\ session.lifecycle = "open" \/ session.runs[r].cancelled
    /\ session' = [session EXCEPT !.runs[r].owned = TRUE]
    /\ UNCHANGED <<accepted, removed, stops>>

ReleaseRun(r) ==
    /\ session.runs[r].owned /\ stops < MaxStops
    /\ stops' = stops + 1
    /\ session' = [session EXCEPT !.runs[r].owned = FALSE]
    /\ UNCHANGED <<accepted, removed>>

\* The next model turn is recorded with the pending messages.
Consume(r) ==
    LET run == session.runs[r]
    IN  /\ run.owned /\ ~run.cancelled /\ run.steering # <<>>
        /\ session' = [session EXCEPT !.runs[r].steering = <<>>,
                !.runs[r].consumed = @ \cup {run.steering[k] : k \in DOMAIN run.steering}]
        /\ UNCHANGED <<accepted, removed, stops>>

\* The Run is done but has unsettled descendants: its outcome is pending.
Conclude(r) ==
    /\ session.runs[r].owned
    /\ session' = [session EXCEPT !.runs[r].status = "finishing", !.runs[r].owned = FALSE]
    /\ UNCHANGED <<accepted, removed, stops>>

SettleRun(r) ==
    /\ session.runs[r].owned \/ session.runs[r].status = "finishing"
    /\ session' = Settled(session, r)
    /\ UNCHANGED <<accepted, removed, stops>>

RunStep(r) == ClaimRun(r) \/ Consume(r) \/ Conclude(r) \/ SettleRun(r)

QueueNext ==
    \/ \E i \in Input : Submit(i) \/ Message(i) \/ Remove(i)
    \/ \E r \in SessionRun :
            Start(r) \/ Activate(r) \/ CancelRun(r) \/ ReleaseRun(r) \/ RunStep(r)
    \/ \E lifecycle \in {"stopped", "closed"} : Halt(lifecycle)
    \/ Resume

QueueSpec == QueueInit /\ [][QueueNext]_queueVars

-----------------------------------------------------------------------------
(* Properties.                                                             *)

\* Where an input is: at a position of the queue, unread in a Run, consumed by a
\* Run, the input of a Run of its own, or removed.
Places(i) ==
    {<<"queued", NoRun, k>> : k \in Positions(session.queue, i)}
    \cup (UNION {{<<"unread", r, k>> : k \in Positions(session.runs[r].steering, i)}
                    : r \in SessionRun})
    \cup {<<"read", r, 0>> : r \in {q \in SessionRun : i \in session.runs[q].consumed}}
    \cup {<<"own", r, 0>> : r \in {q \in {i} : session.runs[q].status # "none"}}
    \cup {<<"removed", NoRun, 0>> : r \in {i} \cap removed}

\* Every accepted input is in one place: through promotion, steering, settlement,
\* stops and removals none is lost or doubled.
InputInOnePlace == \A i \in accepted : Cardinality(Places(i)) = 1

\* What that rests on and the code does not ensure: no Run takes the place of the
\* active one before that has settled.
ActiveRunStays ==
    session.active \notin {NoRun, session'.active}
        => session'.runs[session.active].status = "ended"

\* The queue of an open Session does not stay filled; unless a Run nobody activates
\* is at the head of the lane: one that was prepared, or one that was started while
\* the Session was stopped, which resume does not promote.
QueueDrains ==
    []<>\/ session.queue = <<>>
        \/ session.lifecycle # "open"
        \/ session.lane # <<>> /\ session.runs[Head(session.lane)].status = "queued"
=============================================================================
