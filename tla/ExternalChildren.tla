--------------------------- MODULE ExternalChildren ---------------------------
(***************************************************************************)
(* Child Runs that are placed in another partition.  The partition of the  *)
(* parent retains a placement, the partition of the receiver a root, and   *)
(* neither has a transaction with the other: reconcilers of both sides     *)
(* repeat the delivery of what is outstanding until the root is admitted,  *)
(* activated or cancelled, its outcome is recorded by the parent and the   *)
(* record is acknowledged to the receiver.  Every step of a delivery is a  *)
(* command of one partition; deliveries are interrupted anywhere and run   *)
(* at the same time.  Sources: runtime/child/external/reconciliation.ts,   *)
(* runtime/state/store/child/external.ts, control.ts and capacity.ts.      *)
(*                                                                         *)
(* Left out: digests and the conflicts of changed requests, budgets, the   *)
(* parent's other children and its waits, the flags acknowledged and       *)
(* activated, which only repeat what the root's status says, a Session of  *)
(* the receiver that is taken (requireConversationalSlot), peers that fail *)
(* for good (a page ends at the first delivery that fails), the limit of a *)
(* page, and that promotion compares ids with localeCompare and pages are  *)
(* sorted with <: there is one order, PlacementOrder.                      *)
(***************************************************************************)
EXTENDS Naturals, FiniteSets

CONSTANTS
    Placement,          \* placements of one parent Run
    PlacementOrder,     \* the place of each in the order of their ids
    Reconciler,         \* hosts that reconcile
    ForParent,          \* those of them that belong to the parent's partition
    Permits,            \* treePolicy.concurrency.agents of the parent's family
    Recalled,           \* bound: placements the parent may cancel one by one
    MaxExternalFaults   \* bound: interrupted deliveries, lost executions

ASSUME ExternalAssumption ==
    /\ IsFiniteSet(Placement) /\ PlacementOrder \in [Placement -> Nat]
    /\ \A p, q \in Placement : PlacementOrder[p] = PlacementOrder[q] => p = q
    /\ ForParent \subseteq Reconciler /\ Recalled \subseteq Placement
    /\ Permits \in Nat \ {0} /\ MaxExternalFaults \in Nat

VARIABLES
    parent,         \* the parent Run
    placements,     \* externalChildPlacements, in the parent's partition
    roots,          \* externalRoots and their Runs, in the receiver's partition
    couriers,       \* the page each reconciler delivers, and how far it is
    externalFaults

externalVars == <<parent, placements, roots, couriers, externalFaults>>

\* "done" is a success or a failure.
RootOutcomes == {"done", "cancelled"}
PlacementRecord ==
    [readiness : {"absent", "queued", "ready", "settled"}, cancelRequested : BOOLEAN,
     outcome : RootOutcomes \cup {"none"}]
RootRecord ==
    [status : {"absent", "queued", "running", "cancelling"} \cup RootOutcomes,
     owned : BOOLEAN, cancelled : BOOLEAN, acknowledged : BOOLEAN]
CourierRecord ==
    [at : {"idle", "admit", "inspect", "inspectRoot", "act", "read", "settle", "confirm"},
     page : SUBSET Placement, wish : {"none", "cancel", "activate"},
     outcome : RootOutcomes \cup {"none"}]

ExternalTypeOK ==
    /\ parent \in [status : {"running", "cancelling"} \cup RootOutcomes,
                   owned : BOOLEAN, cancelled : BOOLEAN]
    /\ placements \in [Placement -> PlacementRecord]
    /\ roots \in [Placement -> RootRecord]
    /\ couriers \in [Reconciler -> CourierRecord]
    /\ externalFaults \in 0..MaxExternalFaults

Parked == [at |-> "idle", page |-> {}, wish |-> "none", outcome |-> "none"]
ExternalInit ==
    /\ parent = [status |-> "running", owned |-> TRUE, cancelled |-> FALSE]
    /\ placements = [p \in Placement |->
                        [readiness |-> "absent", cancelRequested |-> FALSE, outcome |-> "none"]]
    /\ roots = [p \in Placement |->
                    [status |-> "absent", owned |-> FALSE, cancelled |-> FALSE, acknowledged |-> FALSE]]
    /\ couriers = [k \in Reconciler |-> Parked]
    /\ externalFaults = 0

Interrupted == externalFaults < MaxExternalFaults /\ externalFaults' = externalFaults + 1

-----------------------------------------------------------------------------
(* The parent's partition.                                                 *)

ParentEnded == parent.status \in RootOutcomes
Outstanding(P) == {p \in Placement : P[p].readiness \in {"queued", "ready"}}
PermitHolders(P) == {p \in Placement : P[p].readiness = "ready"}

\* requestExternalChildCancellation.
CancellationRequested(P) ==
    [p \in Placement |-> IF p \in Outstanding(P) THEN [P[p] EXCEPT !.cancelRequested = TRUE] ELSE P[p]]

\* promoteExternalChildren: permits go to queued placements, in the order of ids.
Promotable(P) == {p \in Placement : P[p].readiness = "queued" /\ ~P[p].cancelRequested}
UpTo(p, S) == {q \in S : PlacementOrder[q] <= PlacementOrder[p]}
PlacementsPromoted(P) ==
    LET active == Cardinality(PermitHolders(P))
        promoted == {p \in Promotable(P) : active + Cardinality(UpTo(p, Promotable(P))) <= Permits}
    IN IF parent.cancelled \/ ParentEnded THEN P
       ELSE [p \in Placement |-> IF p \in promoted THEN [P[p] EXCEPT !.readiness = "ready"] ELSE P[p]]

\* cancel of the parent: it settles when no execution and no placement is left.
ParentCancelled(P) ==
    IF ParentEnded THEN parent
    ELSE [parent EXCEPT !.cancelled = TRUE,
                        !.status = IF parent.owned \/ Outstanding(P) # {} THEN "cancelling" ELSE "cancelled"]

\* reserveScoped, also by an execution that does not know of its cancellation.
Reserve(p) ==
    /\ parent.owned /\ placements[p].readiness = "absent"
    /\ placements' = [placements EXCEPT ![p] =
            [@ EXCEPT !.readiness = IF Cardinality(PermitHolders(placements)) < Permits
                                    THEN "ready" ELSE "queued",
                      !.cancelRequested = parent.cancelled]]
    /\ UNCHANGED <<parent, roots, couriers, externalFaults>>

\* cancelScoped.
CancelPlacement(p) ==
    /\ p \in Recalled
    /\ parent.owned /\ placements[p].readiness # "absent" /\ ~placements[p].cancelRequested
    /\ placements' = [placements EXCEPT ![p].cancelRequested = TRUE]
    /\ UNCHANGED <<parent, roots, couriers, externalFaults>>

\* cancel, by a client: the placements of a Run that has ended are cancelled too.
CancelParent ==
    /\ placements' = CancellationRequested(placements)
    /\ parent' = ParentCancelled(placements)
    /\ UNCHANGED <<roots, couriers, externalFaults>>

ClaimParent ==
    /\ ~ParentEnded /\ ~parent.owned
    /\ parent' = [parent EXCEPT !.owned = TRUE]
    /\ UNCHANGED <<placements, roots, couriers, externalFaults>>

\* complete, fail and completeCancellation: only a cancelled parent waits.
EndParent ==
    /\ parent.owned
    /\ parent' = [parent EXCEPT !.owned = FALSE,
                                !.status = CASE ~parent.cancelled -> "done"
                                             [] Outstanding(placements) # {} -> "cancelling"
                                             [] OTHER -> "cancelled"]
    /\ UNCHANGED <<placements, roots, couriers, externalFaults>>

LoseParent ==
    /\ parent.owned /\ Interrupted
    /\ parent' = [parent EXCEPT !.owned = FALSE]
    /\ UNCHANGED <<placements, roots, couriers>>

-----------------------------------------------------------------------------
(* The receiver's partition.                                               *)

RootEnded(p) == roots[p].status \in RootOutcomes

\* Mutant: a root that has ended is cancelled as well.
RootCancelledMutant(root) ==
    IF root.cancelled THEN root
    ELSE [root EXCEPT !.cancelled = TRUE, !.status = IF root.owned THEN "cancelling" ELSE "cancelled"]
\* cancel of a root: its execution settles it, if it has one.
RootCancelled(root) ==
    IF root.cancelled \/ root.status \in RootOutcomes THEN root
    ELSE [root EXCEPT !.cancelled = TRUE, !.status = IF root.owned THEN "cancelling" ELSE "cancelled"]

ClaimRoot(p) ==
    /\ roots[p].status \in {"running", "cancelling"} /\ ~roots[p].owned
    /\ roots' = [roots EXCEPT ![p].owned = TRUE]
    /\ UNCHANGED <<parent, placements, couriers, externalFaults>>

EndRoot(p) ==
    /\ roots[p].owned
    /\ roots' = [roots EXCEPT ![p] =
            [@ EXCEPT !.owned = FALSE, !.status = IF roots[p].cancelled THEN "cancelled" ELSE "done"]]
    /\ UNCHANGED <<parent, placements, couriers, externalFaults>>

LoseRoot(p) ==
    /\ roots[p].owned /\ Interrupted
    /\ roots' = [roots EXCEPT ![p].owned = FALSE]
    /\ UNCHANGED <<parent, placements, couriers>>

-----------------------------------------------------------------------------
(* Deliveries: reconcilePage and, for every placement of the page, deliver. *)

Goes(k, courier) == couriers' = [couriers EXCEPT ![k] = courier]
\* The placement a reconciler delivers: the first one of what is left of its page.
First(page) == {p \in page : UpTo(p, page) = {p}}
\* The next placement of the page, or its end.
Onwards(courier, p) ==
    IF courier.page \subseteq {p} THEN Parked
    ELSE [Parked EXCEPT !.at = "admit", !.page = courier.page \ {p}]

\* Mutant: the receiver takes a root that has ended for delivered.
OutstandingForMutant(k) ==
    IF k \in ForParent THEN Outstanding(placements)
    ELSE {p \in Placement : roots[p].status # "absent" /\ ~RootEnded(p)}
\* outstandingPlacements, or outstandingRoots.
OutstandingFor(k) ==
    IF k \in ForParent THEN Outstanding(placements)
    ELSE {p \in Placement : roots[p].status # "absent" /\ ~roots[p].acknowledged}
Collect(k) ==
    /\ couriers[k].at = "idle" /\ OutstandingFor(k) # {}
    /\ Goes(k, [Parked EXCEPT !.at = "admit", !.page = OutstandingFor(k)])
    /\ UNCHANGED <<parent, placements, roots, externalFaults>>

\* admitRoot without activation, and acknowledge.
AdmitRoot(k, p) ==
    /\ couriers[k].at = "admit"
    /\ roots' = [roots EXCEPT ![p].status = IF @ = "absent" THEN "queued" ELSE @]
    /\ Goes(k, [couriers[k] EXCEPT !.at = "inspect"])
    /\ UNCHANGED <<parent, placements, externalFaults>>

WishFor(placement) ==
    CASE placement.readiness = "settled" -> "none"
      [] placement.cancelRequested -> "cancel"
      [] placement.readiness = "ready" -> "activate"
      [] OTHER -> "none"
InspectPlacement(k, p) ==
    /\ couriers[k].at = "inspect"
    /\ Goes(k, [couriers[k] EXCEPT !.at = "inspectRoot", !.wish = WishFor(placements[p])])
    /\ UNCHANGED <<parent, placements, roots, externalFaults>>

InspectRoot(k, p) ==
    LET acts == couriers[k].wish # "none" /\ ~RootEnded(p)
    IN  /\ couriers[k].at = "inspectRoot"
        /\ Goes(k, [couriers[k] EXCEPT !.at = IF acts THEN "act" ELSE "read",
                                       !.wish = IF acts THEN @ ELSE "none"])
        /\ UNCHANGED <<parent, placements, roots, externalFaults>>

\* cancelRoot or activateRoot, on what was read before.
Act(k, p) ==
    LET root == roots[p]
    IN  /\ couriers[k].at = "act"
        /\ roots' = [roots EXCEPT ![p] =
                IF couriers[k].wish = "cancel" THEN RootCancelled(root)
                ELSE IF root.status = "queued" /\ ~root.cancelled THEN [root EXCEPT !.status = "running"]
                ELSE root]
        /\ Goes(k, [couriers[k] EXCEPT !.at = "read", !.wish = "none"])
        /\ UNCHANGED <<parent, placements, externalFaults>>

\* rootSettlement.
ReadSettlement(k, p) ==
    /\ couriers[k].at = "read"
    /\ Goes(k, IF RootEnded(p)
               THEN [couriers[k] EXCEPT !.at = "settle", !.outcome = roots[p].status]
               ELSE Onwards(couriers[k], p))
    /\ UNCHANGED <<parent, placements, roots, externalFaults>>

\* settle: once; a repeated settlement must be the recorded one.
SettlePlacement(k, p) ==
    LET outcome == couriers[k].outcome
        recorded == [placements EXCEPT ![p] = [@ EXCEPT !.readiness = "settled", !.outcome = outcome]]
    IN  /\ couriers[k].at = "settle"
        /\ \/ /\ p \in Outstanding(placements)
              /\ placements' = IF parent.cancelled THEN CancellationRequested(recorded)
                               ELSE PlacementsPromoted(recorded)
              /\ parent' = IF parent.cancelled THEN ParentCancelled(recorded) ELSE parent
              /\ Goes(k, [couriers[k] EXCEPT !.at = "confirm", !.outcome = "none"])
           \/ /\ placements[p].readiness = "settled"
              /\ Goes(k, IF placements[p].outcome = outcome
                         THEN [couriers[k] EXCEPT !.at = "confirm", !.outcome = "none"]
                         ELSE Parked)
              /\ UNCHANGED <<parent, placements>>
        /\ UNCHANGED <<roots, externalFaults>>

\* acknowledgeRootSettlement.
ConfirmSettlement(k, p) ==
    /\ couriers[k].at = "confirm"
    /\ roots' = [roots EXCEPT ![p].acknowledged = TRUE]
    /\ Goes(k, Onwards(couriers[k], p))
    /\ UNCHANGED <<parent, placements, externalFaults>>

\* A lost reply, a peer that cannot be reached or a host that stops ends the page.
LosePage(k) ==
    /\ couriers[k].at # "idle" /\ Interrupted
    /\ Goes(k, Parked)
    /\ UNCHANGED <<parent, placements, roots>>

DeliveryStep(k) ==
    \/ Collect(k)
    \/ \E p \in First(couriers[k].page) :
        \/ AdmitRoot(k, p) \/ InspectPlacement(k, p) \/ InspectRoot(k, p) \/ Act(k, p)
        \/ ReadSettlement(k, p) \/ SettlePlacement(k, p) \/ ConfirmSettlement(k, p)

ExternalNext ==
    \/ \E p \in Placement :
        Reserve(p) \/ CancelPlacement(p) \/ ClaimRoot(p) \/ EndRoot(p) \/ LoseRoot(p)
    \/ CancelParent \/ ClaimParent \/ EndParent \/ LoseParent
    \/ \E k \in Reconciler : DeliveryStep(k) \/ LosePage(k)

ExternalSpec == ExternalInit /\ [][ExternalNext]_externalVars

-----------------------------------------------------------------------------
(* Properties.                                                             *)

\* What the partitions hold of a placement agrees, whatever deliveries are late,
\* repeated, interrupted or at work at the same time: a root is at work only while
\* its placement holds one of the family's permits, an outcome of the parent is
\* the one its root has ended with, the receiver takes its own for delivered
\* only then, and a parent is cancelled only when its last placement has settled.
PartitionsAgree ==
    /\ \A p \in Placement :
        /\ roots[p].status \in {"running", "cancelling"} => p \in PermitHolders(placements)
        /\ placements[p].outcome # "none" => roots[p].status = placements[p].outcome
        /\ roots[p].acknowledged => placements[p].readiness = "settled"
    /\ Cardinality(PermitHolders(placements)) <= Permits
    /\ parent.status = "cancelled" => Outstanding(placements) = {}

\* Every placement settles on both sides and every cancelled parent ends, once
\* roots that were activated end; unless the parent ended by itself and left a
\* placement queued: that is then neither promoted nor cancelled.
PlacementsSettle ==
    []<>/\ parent.cancelled => ParentEnded
        /\ \A p \in Placement :
            \/ placements[p].readiness = "absent" \/ roots[p].acknowledged
            \/ placements[p].readiness = "queued" /\ ~placements[p].cancelRequested /\ ParentEnded
=============================================================================
