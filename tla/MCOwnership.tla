---------------------------- MODULE MCOwnership ----------------------------
(* Constant definitions for the TLC runs of Ownership. *)
EXTENDS Ownership, TLC
CONSTANTS a1, a2, w1, r1, r2, r3, c1, main, side

OneWorker == [a \in Activations |-> w1]

\* Roots of one Session.
RootSessions == [r \in Runs |-> main]
RootParents == [r \in Runs |-> None]
RootFences == [r \in Runs |-> 3]

\* A root with one child.
ChildSessions == r1 :> main @@ c1 :> side
ChildParents == r1 :> None @@ c1 :> r1
BriefFences == r1 :> 2 @@ c1 :> 1
=============================================================================
