---------------------------- MODULE Publications ----------------------------
(***************************************************************************)
(* How committed events reach those who follow a Run.  A host keeps a      *)
(* projection of the canonical state.  When it refreshes the projection    *)
(* it offers the events it had not seen to the bounded queue of every      *)
(* subscriber, one event after the other, and only then installs the new   *)
(* projection.  A subscriber that does not keep up is cut off with the     *)
(* cursor to resume at.  A watcher of the tree gets one coalesced tick for *)
(* any number of changes and reads the state.  Sources:                    *)
(* durability/internal/runtime.ts, .../runtime-state/publications.ts and   *)
(* runtime/state/store/{events,event/publications}.ts.                     *)
(*                                                                         *)
(* Events are numbered from 1; the log stands for the Run's events in the  *)
(* journal, which any host appends to.  A client whose stream fails        *)
(* resumes it with the last cursor it knows.                               *)
(***************************************************************************)
EXTENDS Naturals, Sequences

CONSTANTS
    Follower,           \* clients that follow the Run's events
    Capacity,           \* subscriberQueueCapacity
    MaxEvents,          \* bound: events of the Run
    MaxBatch,           \* bound: events one command appends
    MaxViewFaults       \* bound: interruptions, restarts, clients that leave

ASSUME PublicationsAssumption ==
    /\ Capacity \in Nat \ {0} /\ MaxBatch \in Nat \ {0}
    /\ MaxEvents \in Nat /\ MaxViewFaults \in Nat

VARIABLES
    events,     \* the last sequence in the canonical state
    view,       \* the projection of the host and the refresh it has under way
    followers,  \* the subscription of every client, and what it has received
    watcher,    \* a client that watches the tree
    viewFaults

viewVars == <<events, view, followers, watcher, viewFaults>>

Sequence == 0..MaxEvents
HostView ==
    [local : Sequence,              \* lastSequence of the installed projection
     phase : {"idle", "publishing"}, \* the holder of the semaphore
     at : Sequence, target : Sequence, \* last event published, and to publish
     dropped : SUBSET Follower,     \* subscribers missing from the next projection
     interrupted : BOOLEAN]         \* history
Subscription ==
    [phase : {"away", "reading", "following", "expired"},
     needs : Sequence,              \* what the state it reads contains at least
     cursor : Sequence,             \* what it resumes after
     replay : Sequence \X Sequence, \* replayed events it has got, and all of them
     queue : Seq(Sequence),
     failed : BOOLEAN, told : Sequence, \* SubscriberLagged.lastDeliveredSequence
     received : Sequence,
     seen : {"ordered", "repeated", "gap"}] \* history: the order of what it received
TreeWatcher ==
    [phase : {"away", "watching", "reading"}, tick : BOOLEAN, needs : Sequence,
     read : Sequence]
PublicationsTypeOK ==
    /\ events \in Sequence
    /\ view \in HostView
    /\ followers \in [Follower -> Subscription]
    /\ \A f \in Follower : Len(followers[f].queue) <= Capacity
    /\ watcher \in TreeWatcher
    /\ viewFaults \in 0..MaxViewFaults

PublicationsInit ==
    /\ events = 0
    /\ view = [local |-> 0, phase |-> "idle", at |-> 0, target |-> 0, dropped |-> {},
             interrupted |-> FALSE]
    /\ followers = [f \in Follower |->
            [phase |-> "away", needs |-> 0, cursor |-> 0, replay |-> <<0, 0>>,
             queue |-> <<>>, failed |-> FALSE, told |-> 0, received |-> 0,
             seen |-> "ordered"]]
    /\ watcher = [phase |-> "away", tick |-> FALSE, needs |-> 0, read |-> 0]
    /\ viewFaults = 0

-----------------------------------------------------------------------------
(* The host.                                                               *)

\* A command commits, at this host or another.
AppendEvents ==
    /\ \E n \in 1..MaxBatch : events + n <= MaxEvents /\ events' = events + n
    /\ UNCHANGED <<view, followers, watcher, viewFaults>>

\* refresh, under the semaphore: of a read, a heartbeat or a command of this host.
Refresh ==
    /\ view.phase = "idle" /\ view.local < events
    /\ view' = [view EXCEPT !.phase = "publishing", !.at = view.local, !.target = events]
    /\ UNCHANGED <<events, followers, watcher, viewFaults>>

\* Mutant: the subscriber is told the sequence it missed.
LagCursorMutant(e) == e
\* lastDeliveredSequence.
LagCursor(e) == e - 1

\* Mutant: a full queue drops the event.
OfferedMutant(s, e) == IF Len(s.queue) < Capacity THEN [s EXCEPT !.queue = Append(@, e)] ELSE s
\* Queue.offer to a dropping queue, and Queue.fail when it is refused.
Offered(s, e) ==
    IF Len(s.queue) < Capacity THEN [s EXCEPT !.queue = Append(@, e)]
    ELSE [s EXCEPT !.failed = TRUE, !.told = LagCursor(e)]

\* Queue.offer to the sliding queue of the watcher.
Ticked(w) == [w EXCEPT !.tick = @ \/ w.phase # "away"]

\* publish, of one event, to the subscribers of the previous projection.
Publish ==
    LET e == view.at + 1
        live == {f \in Follower : followers[f].phase = "following" /\ f \notin view.dropped}
    IN  /\ view.phase = "publishing" /\ view.at < view.target
        /\ followers' = [f \in Follower |->
                IF f \in live /\ ~followers[f].failed THEN Offered(followers[f], e)
                ELSE followers[f]]
        /\ view' = [view EXCEPT !.at = e,
                        !.dropped = @ \cup {f \in live : followers'[f].failed}]
        /\ watcher' = Ticked(watcher)
        /\ UNCHANGED <<events, viewFaults>>

\* Ref.set and accept, which nothing interrupts.
Install ==
    /\ view.phase = "publishing" /\ view.at = view.target
    /\ view' = [view EXCEPT !.phase = "idle", !.local = view.target, !.dropped = {}]
    /\ UNCHANGED <<events, followers, watcher, viewFaults>>

ViewFault == viewFaults < MaxViewFaults /\ viewFaults' = viewFaults + 1
\* The fiber that refreshes is interrupted between two of its steps.
InterruptRefresh ==
    /\ ViewFault
    /\ view.phase = "publishing"
    /\ view' = [view EXCEPT !.phase = "idle", !.dropped = {}, !.interrupted = TRUE]
    /\ UNCHANGED <<events, followers, watcher>>

\* Clients resume with the last event they have received.
Away(s, cursor) ==
    [s EXCEPT !.phase = "away", !.cursor = cursor, !.replay = <<0, 0>>, !.queue = <<>>,
              !.failed = FALSE, !.told = 0, !.needs = 0]
\* The host is closed or crashes, and starts with a fresh projection.
RestartHost ==
    /\ ViewFault
    /\ view' = [view EXCEPT !.local = events, !.phase = "idle", !.dropped = {}]
    /\ followers' = [f \in Follower |->
            IF followers[f].phase = "expired" THEN followers[f]
            ELSE Away(followers[f], IF followers[f].phase = "following"
                                    THEN followers[f].received ELSE followers[f].cursor)]
    /\ watcher' = [watcher EXCEPT !.phase = "away", !.tick = FALSE]
    /\ UNCHANGED events

-----------------------------------------------------------------------------
(* Followers.                                                              *)

\* readState, which refreshes under the semaphore what it finds committed.
ReadEvents(f) ==
    /\ followers[f].phase = "away"
    /\ followers' = [followers EXCEPT ![f].phase = "reading", ![f].needs = events]
    /\ UNCHANGED <<events, view, watcher, viewFaults>>

\* followEvents: the replay and the subscription in one step under the semaphore.
Subscribe(f) ==
    LET cursor == followers[f].cursor
    IN  /\ followers[f].phase = "reading"
        /\ view.phase = "idle" /\ view.local >= followers[f].needs
        /\ followers' = IF cursor > view.local
             THEN [followers EXCEPT ![f].phase = "expired"]
             ELSE [followers EXCEPT ![f].phase = "following",
                                    ![f].replay = <<cursor, view.local>>]
        /\ UNCHANGED <<events, view, watcher, viewFaults>>

\* The client receives an event.
Received(s, e) ==
    [s EXCEPT !.received = IF e > @ THEN e ELSE @,
              !.seen = IF e > s.received + 1 THEN "gap"
                       ELSE IF e <= s.received /\ @ = "ordered" THEN "repeated" ELSE @]
\* The stream: the replay, then the queue.
TakeEvent(f) ==
    LET s == followers[f]
    IN  /\ s.phase = "following"
        /\ \/ /\ s.replay[1] < s.replay[2]
              /\ followers' = [followers EXCEPT
                    ![f] = [Received(s, s.replay[1] + 1) EXCEPT !.replay[1] = @ + 1]]
           \/ /\ s.replay[1] = s.replay[2] /\ s.queue # <<>>
              /\ followers' = [followers EXCEPT
                    ![f] = [Received(s, Head(s.queue)) EXCEPT !.queue = Tail(@)]]
        /\ UNCHANGED <<events, view, watcher, viewFaults>>

\* A failed queue still hands out what was offered before, then fails (the queue of
\* the Effect library).  The finalizer removes the
\* subscription under the semaphore.
Lagged(f) ==
    LET s == followers[f]
    IN  /\ s.phase = "following" /\ s.failed
        /\ s.replay[1] = s.replay[2] /\ s.queue = <<>>
        /\ view.phase = "idle"
        /\ followers' = [followers EXCEPT ![f] = Away(s, s.told)]
        /\ UNCHANGED <<events, view, watcher, viewFaults>>

\* A client leaves, and comes back.
LeaveEvents(f) ==
    /\ ViewFault
    /\ followers[f].phase = "following" /\ view.phase = "idle"
    /\ followers' = [followers EXCEPT ![f] = Away(@, @.received)]
    /\ UNCHANGED <<events, view, watcher>>

-----------------------------------------------------------------------------
(* The watcher: followTreeChanges, whose queue slides with one place.      *)

Watch ==
    /\ watcher.phase = "away" /\ view.phase = "idle"
    /\ watcher' = [watcher EXCEPT !.phase = "watching", !.tick = TRUE]
    /\ UNCHANGED <<events, view, followers, viewFaults>>
TakeTick ==
    /\ watcher.phase = "watching" /\ watcher.tick
    /\ watcher' = [watcher EXCEPT !.phase = "reading", !.tick = FALSE, !.needs = events]
    /\ UNCHANGED <<events, view, followers, viewFaults>>
ReadTree ==
    /\ watcher.phase = "reading" /\ view.phase = "idle" /\ view.local >= watcher.needs
    /\ watcher' = [watcher EXCEPT !.phase = "watching", !.needs = 0, !.read = view.local]
    /\ UNCHANGED <<events, view, followers, viewFaults>>

-----------------------------------------------------------------------------
ViewStep == Refresh \/ Publish \/ Install
FollowerStep(f) == ReadEvents(f) \/ Subscribe(f) \/ TakeEvent(f) \/ Lagged(f)
WatcherStep == Watch \/ TakeTick \/ ReadTree
PublicationsNext ==
    \/ AppendEvents \/ ViewStep \/ InterruptRefresh \/ RestartHost
    \/ \E f \in Follower : FollowerStep(f) \/ LeaveEvents(f)
    \/ WatcherStep
PublicationsSpec == PublicationsInit /\ [][PublicationsNext]_viewVars
\* The heartbeat of an activation refreshes, and clients go on.
PublicationsFairness ==
    /\ WF_viewVars(ViewStep)
    /\ \A f \in Follower : WF_viewVars(FollowerStep(f))
    /\ WF_viewVars(WatcherStep)

-----------------------------------------------------------------------------
(* Properties.                                                             *)

\* Through replays, live events, lag and reconnections a client receives every
\* event after its first cursor without a gap, and none twice unless a refresh was
\* interrupted; no cursor it was given is refused.
FollowedInOrder ==
    \A f \in Follower :
        /\ followers[f].seen # "gap" /\ followers[f].phase # "expired"
        /\ followers[f].seen = "repeated" => view.interrupted

\* Everybody who follows gets to the last event, however slow he is, and a watcher
\* never misses the last change although its ticks coalesce and precede the state
\* they announce.
CaughtUp ==
    watcher.read = events /\ \A f \in Follower : followers[f].received = events
FollowersCatchUp == []<>CaughtUp
=============================================================================
