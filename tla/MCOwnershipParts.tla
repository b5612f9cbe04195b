-------------------------- MODULE MCOwnershipParts --------------------------
(***************************************************************************)
(* Three parts of one instance of Ownership, side by side: two hosts and   *)
(* two roots in the lane of a host Session; another host with that lane,   *)
(* whose second root may have a child; that host and root with two children*)
(* on one Session.  A behaviour picks one of them and takes the steps of   *)
(* its hosts and Runs.                                                     *)
(***************************************************************************)
EXTENDS Ownership, TLC

CONSTANTS a1, a2, a3, w1, w2, w3, r1, r2, c1, c2, main, side

VARIABLE part       \* the part whose steps are taken

PartWorkers == a1 :> w1 @@ a2 :> w2 @@ a3 :> w3
PartSessions == r1 :> main @@ r2 :> main @@ c1 :> side @@ c2 :> side
PartParents == [r \in {r1, r2} |-> None] @@ [c \in {c1, c2} |-> r2]
PartFences == r1 :> 1 @@ r2 :> 2 @@ c1 :> 1 @@ c2 :> 1

\* The hosts that take steps, and the Runs that may be admitted together.
HostsOf == [hosts |-> {a1, a2}, lane |-> {a3}, family |-> {a3}]
RunsOf == [hosts |-> {{r1, r2}}, lane |-> {{r1, r2, c1}, {r1, r2, c2}},
           family |-> {{r2, c1, c2}}]

PartsInit == Init /\ part \in DOMAIN RunsOf

StepsOf(hosts, runs) ==
    \/ \E a \in hosts : Lease(a)
    \/ \E a \in hosts, r \in runs : Execution(a, r)
    \/ \E r \in runs : Client(r)

\* The releases of a host do not fail.
Releases(a) ==
    fiber' # fiber =>
        \A r \in Runs : fiber[a][r] # None /\ fiber'[a][r] = None
                           => ~HoldsRun(state', WorkerOf[a], r, fiber[a][r])

PartsNext ==
    /\ \E runs \in RunsOf[part] :
          /\ StepsOf(HostsOf[part], runs)
          /\ \A r \in Runs \ runs : state'.runs[r].status = "absent"
    /\ Releases(a3)
    /\ UNCHANGED part

PartsSpec == PartsInit /\ [][PartsNext]_<<vars, part>>

\* The hosts of the first part are alike, and so are the children.
Swapped(x, y) == x :> y @@ y :> x
Kept(x, y) == x :> x @@ y :> y
Symmetry ==
    {h @@ c : h \in {Kept(a1, a2) @@ Kept(w1, w2), Swapped(a1, a2) @@ Swapped(w1, w2)},
              c \in {Kept(c1, c2), Swapped(c1, c2)}}
=============================================================================
