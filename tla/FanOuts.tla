------------------------------- MODULE FanOuts -------------------------------
(***************************************************************************)
(* The groups of child Runs (fan-outs) of an execution family and the      *)
(* capacity its Agents share.  A group is admitted whole; its members are  *)
(* ready while the family has capacity and queued otherwise; its join is   *)
(* decided by the members that settle, the remainder is awaited, cancelled *)
(* or abandoned, and the parent resumes or settles.  Sources:              *)
(* runtime/state/store/fan-out, runtime/state/store/child/capacity.ts,     *)
(* runtime/state/store/control.ts and control/suspend.ts.                  *)
(*                                                                         *)
(* An execution is its claim: one that lost its owner can write nothing.   *)
(* Left out: budgets, Sessions and lanes (Ownership), operations and their *)
(* cancellations (Operations), parked Agent permits, external placements,  *)
(* Programs, and waits for single children (Ownership).                    *)
(***************************************************************************)
EXTENDS Naturals, FiniteSets
LOCAL INSTANCE SequencesExt
LOCAL INSTANCE FiniteSetsExt

CONSTANTS
    Agent,          \* the Runs of the family
    RootAgent,
    FamilyOrder,    \* the order in which the family lists its Runs
    AgentParent,    \* AgentParent[r]: the parent of a Run other than the root
    Group,
    MembersOf,      \* MembersOf[g]: the members of a group, which share a parent
    Width,          \* Width[g]: its concurrency
    JoinOf,         \* JoinOf[g]: "AllSuccess", "AllSettled" or "Quorum"
    Required,       \* Required[g]: the successes a quorum needs
    RemainderOf,    \* RemainderOf[g]: "await", "request-cancel" or "abandon"
    Agents,         \* treePolicy.concurrency.agents
    MaxTreeFaults   \* bound: failures, cancellations and lost executions

ASSUME FanOutsAssumption ==
    /\ RootAgent \in Agent /\ \A r \in Agent : \E k \in DOMAIN FamilyOrder : FamilyOrder[k] = r
    /\ AgentParent \in [Agent \ {RootAgent} -> Agent]
    /\ \A g \in Group :
        /\ MembersOf[g] # {} /\ MembersOf[g] \subseteq Agent \ {RootAgent}
        /\ \A c, d \in MembersOf[g] : AgentParent[c] = AgentParent[d]
        /\ Width[g] \in 1..Cardinality(MembersOf[g])
        /\ JoinOf[g] \in {"AllSuccess", "AllSettled", "Quorum"}
        /\ Required[g] \in 1..Cardinality(MembersOf[g])
        /\ RemainderOf[g] \in {"await", "request-cancel", "abandon"}
    /\ \A g, h \in Group : g # h => MembersOf[g] \cap MembersOf[h] = {}
    /\ Agents \in Nat \ {0} /\ MaxTreeFaults \in Nat

VARIABLES
    tree,       \* tree.runs: the Runs; tree.groups: the groups; tree.abandoned: members
    treeFaults

treeVars == <<tree, treeFaults>>

ChildrenOf(r) == {c \in Agent \ {RootAgent} : AgentParent[c] = r}
GroupParent(g) == AgentParent[CHOOSE c \in MembersOf[g] : TRUE]
OwnGroups(r) == {g \in Group : GroupParent(g) = r}
GroupsWith(c) == {g \in Group : c \in MembersOf[g]}

Settlements == {"succeeded", "failed", "cancelled"}
AgentRun ==
    [status : {"absent", "queued", "running", "waiting", "cancelling"} \cup Settlements,
     owned : BOOLEAN, cancelled : BOOLEAN,
     readiness : {"none", "queued", "ready", "settled"},
     pending : {"none", "succeeded", "failed"},
     waits : [Group -> {"absent", "open", "closed"}]]

FanOutsTypeOK ==
    /\ tree.runs \in [Agent -> AgentRun]
    /\ tree.groups \in [Group -> {"absent", "running"} \cup Settlements]
    /\ tree.abandoned \subseteq Agent
    /\ treeFaults \in 0..MaxTreeFaults

NewRun == [status |-> "absent", owned |-> FALSE, cancelled |-> FALSE, readiness |-> "none",
           pending |-> "none", waits |-> [g \in Group |-> "absent"]]
FanOutsInit ==
    /\ tree = [runs |-> [r \in Agent |-> IF r = RootAgent THEN [NewRun EXCEPT !.status = "running"]
                                         ELSE NewRun],
               groups |-> [g \in Group |-> "absent"],
               abandoned |-> {}]
    /\ treeFaults = 0

-----------------------------------------------------------------------------
(* Transitions of the store that several commands share, as functions of   *)
(* the tree.                                                               *)

HasSettled(t, r) == t.runs[r].status \in Settlements
Unsettled(t, r) == t.runs[r].status \notin Settlements \cup {"absent"}
RunningGroups(t, r) == {g \in OwnGroups(r) : t.groups[g] = "running"}
\* Mutant: groups of the Run are not waited for.
MustWaitMutant(t, r) == \E c \in ChildrenOf(r) : t.runs[c].owned
\* cancellationMustWait.
MustWait(t, r) == RunningGroups(t, r) # {} \/ \E c \in ChildrenOf(r) : Unsettled(t, c)

\* activeChildCount.
ActiveChildren(t) ==
    {c \in Agent : t.runs[c].readiness = "ready" /\ Unsettled(t, c) /\ t.runs[c].status # "waiting"}

\* Mutant: nothing is promoted.
PromotedMutant(t, r) == t
\* promoteChildCapacity, called for a Run of the family.
Promoted(t, r) ==
    LET promote(u, c) ==
            IF /\ Cardinality(ActiveChildren(u)) < Agents
               /\ u.runs[c].readiness = "queued" /\ ~HasSettled(u, c) /\ ~u.runs[c].cancelled
               /\ \A g \in GroupsWith(c) :
                    /\ u.groups[g] = "running"
                    /\ Cardinality({d \in MembersOf[g] : u.runs[d].readiness = "ready"}) < Width[g]
            THEN [u EXCEPT !.runs[c].readiness = "ready"] ELSE u
    IN IF t.runs[r].cancelled THEN t ELSE FoldLeft(promote, t, FamilyOrder)

\* joinedStatus and completionStatus: "running" while the join is undecided.
Joined(t, g) ==
    LET members(status) == {c \in MembersOf[g] \ t.abandoned : t.runs[c].status = status}
        unsettled == {c \in MembersOf[g] \ t.abandoned : Unsettled(t, c)}
        decided ==
            CASE JoinOf[g] = "AllSuccess" ->
                    IF members("failed") \cup members("cancelled") # {} THEN "failed"
                    ELSE IF unsettled = {} THEN "succeeded" ELSE "running"
              [] JoinOf[g] = "AllSettled" -> IF unsettled = {} THEN "succeeded" ELSE "running"
              [] OTHER ->
                    IF Cardinality(members("succeeded")) >= Required[g] THEN "succeeded"
                    ELSE IF Cardinality(members("succeeded") \cup unsettled) < Required[g]
                         THEN "failed" ELSE "running"
    IN IF decided = "succeeded" /\ RemainderOf[g] = "await" /\ unsettled # {}
       THEN "running" ELSE decided

\* applyRemainder.  A member nobody executes is cancelled on the spot, whatever it
\* is waiting for.
WithRemainder(t, g) ==
    LET rest == {c \in MembersOf[g] \ t.abandoned : Unsettled(t, c)}
        cancel(run) ==
            IF run.owned THEN [run EXCEPT !.cancelled = TRUE, !.status = "cancelling"]
            ELSE [run EXCEPT !.cancelled = TRUE, !.status = "cancelled", !.readiness = "settled",
                             !.pending = "none"]
    IN CASE RemainderOf[g] = "await" -> t
         [] RemainderOf[g] = "abandon" -> [t EXCEPT !.abandoned = @ \cup rest]
         [] OTHER -> [t EXCEPT !.runs = [c \in Agent |-> IF c \in rest THEN cancel(@[c]) ELSE @[c]]]

\* A Run reaches a terminal status: settleParentChild, reconcileFanOut with
\* completeJoin, and finalizeCancellingParent, up the tree.
RECURSIVE Terminated(_, _, _)

\* Mutant: the parent is left as it is.
JoinCompletedMutant(t, g) == t
\* A group whose join is decided settles its parent, or resumes it.
JoinCompleted(t, g) ==
    LET p == GroupParent(g)
        settled == IF t.runs[p].pending # "none" /\ ~t.runs[p].cancelled /\ RunningGroups(t, p) = {}
                   THEN Terminated(t, p, t.runs[p].pending) ELSE t
    IN IF ~HasSettled(settled, p) /\ settled.runs[p].waits[g] = "open"
       THEN [settled EXCEPT !.runs[p] =
                [@ EXCEPT !.waits[g] = "closed", !.owned = FALSE, !.status = "running"]]
       ELSE settled

\* reconcileFanOut for the settled Run c.
GroupReconciled(t, c) ==
    IF \A g \in GroupsWith(c) : c \in t.abandoned \/ t.groups[g] # "running"
    THEN Promoted(t, AgentParent[c])
    ELSE LET g == CHOOSE g \in GroupsWith(c) : TRUE
             joined == Joined(t, g)
         IN IF t.runs[AgentParent[c]].cancelled
            THEN IF \E d \in MembersOf[g] : Unsettled(t, d) /\ d \notin t.abandoned THEN t
                 ELSE [t EXCEPT !.groups[g] = "cancelled"]
            ELSE IF joined = "running" THEN Promoted(t, AgentParent[c])
            ELSE JoinCompleted(Promoted([WithRemainder(t, g) EXCEPT !.groups[g] = joined],
                                        AgentParent[c]), g)

CancellingParentFinalized(t, p) ==
    IF t.runs[p].status = "cancelling" /\ ~t.runs[p].owned /\ ~MustWait(t, p)
    THEN Terminated(t, p, "cancelled") ELSE t

Terminated(t, r, status) ==
    LET ended == [t EXCEPT !.runs[r] =
            [@ EXCEPT !.status = status, !.owned = FALSE, !.readiness = "settled", !.pending = "none",
                      !.waits = [g \in Group |-> IF @[g] = "open" THEN "closed" ELSE @[g]]]]
    IN IF r = RootAgent THEN ended
       ELSE LET p == AgentParent[r]
                \* A parent that was queued itself starts when its children have settled.
                started == IF ended.runs[p].status = "queued"
                              /\ ~\E c \in ChildrenOf(p) : Unsettled(ended, c)
                           THEN [ended EXCEPT !.runs[p].status = "running"] ELSE ended
            IN CancellingParentFinalized(GroupReconciled(started, r), p)

\* cancel: the Run, then its descendants, then the settlement of the Run if no
\* execution and no descendant is left to wait for.
RECURSIVE CancelledTree(_, _)
CancelledTree(t, r) ==
    LET run == t.runs[r]
        requested == IF HasSettled(t, r) THEN t
            ELSE [t EXCEPT !.runs[r] =
                    [@ EXCEPT !.status = IF run.cancelled THEN @ ELSE "cancelling",
                              !.cancelled = TRUE,
                              !.waits = [g \in Group |-> IF @[g] = "open" THEN "closed" ELSE @[g]]]]
        cancelChild(u, c) ==
            IF /\ c \in ChildrenOf(r) /\ Unsettled(u, c) /\ c \notin u.abandoned
               /\ \A g \in GroupsWith(c) : u.groups[g] = "running"
            THEN CancelledTree(u, c) ELSE u
        below == FoldLeft(cancelChild, requested, FamilyOrder)
    IN IF HasSettled(t, r) \/ (run.owned /\ run.status \in {"running", "cancelling"})
          \/ HasSettled(below, r) \/ MustWait(below, r)
       THEN below ELSE Terminated(below, r, "cancelled")

-----------------------------------------------------------------------------
(* Commands.                                                               *)

Faulty == treeFaults < MaxTreeFaults /\ treeFaults' = treeFaults + 1

\* admitFanOut, from the parent's execution or from a caller.
AdmitGroup(g) ==
    LET p == GroupParent(g)
        room == Agents - Cardinality(ActiveChildren(tree))
        first(k) == {c \in MembersOf[g] : Cardinality({d \in MembersOf[g] :
                        \E i, j \in DOMAIN FamilyOrder :
                            FamilyOrder[i] = d /\ FamilyOrder[j] = c /\ i < j}) < k}
        ready == IF Cardinality(ActiveChildren(tree)) >= Agents THEN {}
                 ELSE first(Min({Width[g], Agents, room}))
    IN  /\ tree.groups[g] = "absent"
        /\ Unsettled(tree, p) /\ tree.runs[p].pending = "none" /\ tree.runs[p].status # "cancelling"
        /\ tree' = [tree EXCEPT
            !.groups[g] = "running",
            !.runs = [c \in Agent |-> IF c \notin MembersOf[g] THEN @[c]
                ELSE [NewRun EXCEPT !.status = "queued",
                                    !.readiness = IF c \in ready THEN "ready" ELSE "queued"]]]
        /\ UNCHANGED treeFaults

\* admitSpawn of a child outside any group: it only asks whether the parent has
\* settled.
Spawn(c) ==
    /\ c # RootAgent /\ GroupsWith(c) = {} /\ tree.runs[c].status = "absent"
    /\ Unsettled(tree, AgentParent[c])
    /\ tree' = [tree EXCEPT !.runs[c] = [NewRun EXCEPT !.status = "queued",
            !.readiness = IF Cardinality(ActiveChildren(tree)) < Agents THEN "ready" ELSE "queued"]]
    /\ UNCHANGED treeFaults

\* claimExecution with requireFamilyCapacity.
Executing(t) == {r \in Agent : t.runs[r].owned /\ t.runs[r].status = "running"}
HasCapacity == Cardinality(Executing(tree)) < Agents
ClaimAgent(r) ==
    LET run == tree.runs[r]
    IN  /\ ~run.owned
        /\ run.status \in {"running", "cancelling"} \/ (run.status = "queued" /\ run.readiness = "ready")
        /\ HasCapacity
        /\ tree' = [tree EXCEPT !.runs[r] = [@ EXCEPT !.owned = TRUE,
                        !.status = IF run.cancelled THEN "cancelling" ELSE "running"]]
        /\ UNCHANGED treeFaults

\* suspend on the groups of G, which the execution saw running, and on those it
\* has awaited before: reconcileGroups, then promoteChildCapacity.
AwaitGroups(r, G) ==
    LET run == tree.runs[r]
        awaited == {g \in OwnGroups(r) : run.waits[g] = "open"} \cup G
        joined == {g \in awaited : tree.groups[g] # "running"}
    IN  /\ run.owned /\ awaited # {}
        /\ \A g \in G : tree.groups[g] # "absent" /\ run.waits[g] = "absent"
        /\ tree' = Promoted([tree EXCEPT !.runs[r] = [@ EXCEPT
                !.owned = FALSE,
                !.status = IF joined = {} THEN "waiting" ELSE "running",
                !.waits = [g \in Group |-> IF g \in joined THEN "closed"
                                           ELSE IF g \in awaited THEN "open" ELSE @[g]]]], r)
        /\ UNCHANGED treeFaults

\* complete and fail.  An outcome that comes before the groups have joined is
\* pending until they have.
Finish(r, outcome) ==
    LET run == tree.runs[r]
    IN  /\ run.owned
        /\ outcome = "succeeded" => \A g \in Group : run.waits[g] # "open"
        /\ tree' =
            IF run.cancelled
            THEN IF MustWait(tree, r) THEN [tree EXCEPT !.runs[r].owned = FALSE]
                 ELSE Terminated(tree, r, "cancelled")
            ELSE IF RunningGroups(tree, r) # {}
                 THEN [tree EXCEPT !.runs[r] = [@ EXCEPT !.owned = FALSE, !.status = "waiting",
                        !.pending = outcome,
                        !.waits = [g \in Group |-> IF @[g] = "open" THEN "closed" ELSE @[g]]]]
                 ELSE Terminated(tree, r, outcome)

CompleteAgent(r) == Finish(r, "succeeded") /\ UNCHANGED treeFaults
FailAgent(r) == Finish(r, "failed") /\ Faulty

CancelAgent(r) ==
    /\ tree.runs[r].status # "absent"
    /\ tree' = CancelledTree(tree, r)
    /\ Faulty

\* The execution is released or its host is lost.
LoseAgent(r) ==
    /\ tree.runs[r].owned
    /\ tree' = [tree EXCEPT !.runs[r].owned = FALSE]
    /\ Faulty

\* The execution completes, or suspends on the waits it has.
EndExecution(r) == CompleteAgent(r) \/ AwaitGroups(r, {})

FanOutsNext ==
    \/ \E g \in Group : AdmitGroup(g)
    \/ \E r \in Agent :
        \/ Spawn(r) \/ ClaimAgent(r) \/ CompleteAgent(r) \/ FailAgent(r) \/ CancelAgent(r) \/ LoseAgent(r)
        \/ \E G \in SUBSET OwnGroups(r) : AwaitGroups(r, G)

FanOutsSpec == FanOutsInit /\ [][FanOutsNext]_treeVars

-----------------------------------------------------------------------------
(* Properties.                                                             *)

\* A group is joined with the member that decides it, on whichever path that
\* member settles, and a Run never waits for a group that has joined.
JoinedInTime ==
    \A g \in Group :
        LET p == tree.runs[GroupParent(g)]
        IN  ~p.cancelled =>
            /\ tree.groups[g] = "running" => Joined(tree, g) = "running"
            /\ p.status = "waiting" /\ p.waits[g] = "open" => tree.groups[g] = "running"

\* A Run has an outcome only when every group it owns has joined; unless the
\* remainder of another group cancelled it where it stood.
OutcomeAfterGroups ==
    \A r \in Agent :
        HasSettled(tree, r) /\ (tree.runs[r].status = "cancelled"
            => \A g \in GroupsWith(r) : RemainderOf[g] # "request-cancel")
        => RunningGroups(tree, r) = {}

\* Joins and outcomes agree: both of the above.
GroupsAgree == JoinedInTime /\ OutcomeAfterGroups

\* Known ways in which a family stops short: a Run that suspended after its
\* cancellation (CancellationSettles of Ownership), orphans of a cancelled member,
\* queued members that were abandoned or whose parent is being cancelled, and
\* members queued while a Run with a pending outcome has freed its slot.
Obstructed(r) ==
    LET run == tree.runs[r]
        queued(c) == Unsettled(tree, c) /\ tree.runs[c].readiness = "queued"
    IN  \/ run.status = "waiting" /\ run.cancelled
        \/ run.status = "cancelled" /\ \E c \in ChildrenOf(r) : Unsettled(tree, c)
        \/ queued(r) /\ (r \in tree.abandoned \/ tree.runs[AgentParent[r]].cancelled)
        \/ run.pending # "none" /\ \E c \in Agent : queued(c)

FamilySettled == \A r \in Agent : ~Unsettled(tree, r)
=============================================================================
