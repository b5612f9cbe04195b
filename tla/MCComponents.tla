---------------------------- MODULE MCComponents ----------------------------
(***************************************************************************)
(* Small instances of the components of the Run state store that share no  *)
(* variables, checked by one run: a behaviour picks one component and      *)
(* takes its steps, the others stay in their initial states.               *)
(***************************************************************************)
EXTENDS Schedules, SessionQueue, Awaits, FanOuts, ExternalChildren, TLC

CONSTANTS family1, family2, call1, call2, call3, event1, message1,
          root1, member1, member2, nested1, nested2, child1, group1, group2,
          placement1, placement2, reconciler1, reconciler2

VARIABLES
    part,       \* the component whose steps are taken
    obstructed  \* history: the family of FanOuts has been obstructed

allVars == <<part, obstructed, scheduleVars, queueVars, awaitVars, treeVars, externalVars>>

\* Awaits: two Runs that wait for each other, one of them also for messages and
\* for an event.
CallsOf == [w \in AwaitCall |-> IF w = call3 THEN family2 ELSE family1]
Selectors == [w \in AwaitCall |->
    CASE w = call1 -> [events |-> {}, runs |-> {family2}, messages |-> TRUE]
      [] w = call3 -> [events |-> {}, runs |-> {family1}, messages |-> FALSE]
      [] OTHER -> [events |-> {event1}, runs |-> {}, messages |-> FALSE]]
Addressee == [m \in Inbound |-> family1]

\* FanOuts: a group of two members, one of which has a group of its own, and a
\* child outside groups.
Order == <<root1, member1, member2, nested1, nested2, child1>>
Parents == [r \in Agent \ {root1} |-> IF r \in {nested1, nested2} THEN member1 ELSE root1]
Members == group1 :> {member1, member2} @@ group2 :> {nested1, nested2}
Widths == group1 :> 2 @@ group2 :> 1
Joins == [g \in Group |-> "Quorum"]
Quorums == [g \in Group |-> 1]
Remainders == group1 :> "request-cancel" @@ group2 :> "abandon"

\* ExternalChildren.
PlacementIds == placement1 :> 1 @@ placement2 :> 2

Init ==
    /\ part \in {"schedules", "queue", "awaits", "fan-outs", "external"}
    /\ obstructed = FALSE
    /\ SchedulesInit /\ QueueInit /\ AwaitsInit /\ FanOutsInit /\ ExternalInit

Next ==
    \/ /\ part = "schedules" /\ SchedulesNext
       /\ UNCHANGED <<part, obstructed, queueVars, awaitVars, treeVars, externalVars>>
    \/ /\ part = "queue" /\ QueueNext
       /\ UNCHANGED <<part, obstructed, scheduleVars, awaitVars, treeVars, externalVars>>
    \/ /\ part = "awaits" /\ AwaitsNext
       /\ UNCHANGED <<part, obstructed, scheduleVars, queueVars, treeVars, externalVars>>
    \/ /\ part = "fan-outs" /\ FanOutsNext
       /\ obstructed' = (obstructed \/ \E r \in Agent : Obstructed(r)')
       /\ UNCHANGED <<part, scheduleVars, queueVars, awaitVars, externalVars>>
    \/ /\ part = "external" /\ ExternalNext
       /\ UNCHANGED <<part, obstructed, scheduleVars, queueVars, awaitVars, treeVars>>

\* In the behaviours of a component: activations poll and go on, and the leases of
\* claims nobody fires run out; schedulers tick; a Run that may be executed is, and
\* its execution ends, or suspends on the waits it has.  For the last the enabling
\* condition, that the Run is owned, is written out.
Fairness ==
    /\ \A a \in Activations :
            WF_scheduleVars(part = "schedules" /\ (ClaimDue(a) \/ FireStep(a)))
    /\ \A s \in Schedule : WF_scheduleVars(part = "schedules" /\ TimePasses(s))
    /\ \A r \in SessionRun : WF_queueVars(part = "queue" /\ RunStep(r))
    /\ \A s \in Scheduler : WF_awaitVars(part = "awaits" /\ SchedulerStep(s))
    /\ \A r \in FamilyRun : WF_awaitVars(part = "awaits" /\ ExecutionStep(r))
    /\ \A r \in Agent :
        /\ WF_treeVars(part = "fan-outs" /\ ClaimAgent(r))
        /\ []<>~(part = "fan-outs" /\ tree.runs[r].owned) \/ []<><<EndExecution(r)>>_treeVars
    /\ \A k \in Reconciler : WF_externalVars(part = "external" /\ DeliveryStep(k))
    /\ \A p \in Placement :
        /\ WF_externalVars(part = "external" /\ ClaimRoot(p))
        /\ WF_externalVars(part = "external" /\ EndRoot(p))
    /\ WF_externalVars(part = "external" /\ parent.cancelled /\ (ClaimParent \/ EndParent))

Spec == Init /\ [][Next]_allVars /\ Fairness

\* The states of the components are those the code declares: no status, readiness
\* or record of theirs is left in a form their readers do not know.
ComponentsTypeOK ==
    SchedulesTypeOK /\ QueueTypeOK /\ AwaitsTypeOK /\ FanOutsTypeOK /\ ExternalTypeOK

\* What is due is fired, what is queued is promoted and what is overdue times out,
\* whichever host fails: SchedulesAdvance, QueueDrains and WaitsTimeOut, with the
\* exceptions they name.
WorkMovesOn == SchedulesAdvance /\ QueueDrains /\ WaitsTimeOut

\* Unless it has been obstructed, a family that stops growing settles down to its
\* last Run: no member is left queued, no parent left waiting, whatever fails, is
\* cancelled, abandoned or loses its execution on the way.
FamiliesSettleDown == []<>(part = "fan-outs" => obstructed \/ FamilySettled)
=============================================================================
