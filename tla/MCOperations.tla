---------------------------- MODULE MCOperations ----------------------------
(***************************************************************************)
(* Small instances of three components, checked by one run: the operations *)
(* of a Run of an Agent, those of a Run of a Program, and the publication  *)
(* of a Run's events.  They share no variables: a behaviour picks one of   *)
(* them and takes its steps, the others stay in their initial states.      *)
(***************************************************************************)
EXTENDS Operations, Programs, Publications

CONSTANTS h1, h2, o1, o2, w1, w2, f1

VARIABLE part       \* the component whose steps are taken

\* The handler of the second call may die, that of the third may fail.
AnyOutcome == [c \in Call |-> CASE c = 2 -> {"success", "defect"}
                                [] c = 3 -> {"success", "failure"}
                                [] OTHER -> {"success"}]

Init ==
    /\ part \in {"agent", "program", "publication"}
    /\ OpsInit /\ ProgramsInit /\ PublicationsInit

Next ==
    \/ part = "agent" /\ OpsNext /\ UNCHANGED <<part, programVars, viewVars>>
    \/ part = "program" /\ ProgramsNext /\ UNCHANGED <<part, opsVars, viewVars>>
    \/ part = "publication" /\ PublicationsNext /\ UNCHANGED <<part, opsVars, programVars>>

\* OpsFairness, ProgramsFairness and PublicationsFairness in the behaviours of their
\* component.
Fairness ==
    /\ \A h \in Hosts : WF_opsVars(part = "agent" /\ HostStep(h))
    /\ \A w \in Worker : WF_programVars(part = "program" /\ WorkerStep(w))
    /\ WF_viewVars(part = "publication" /\ ViewStep)
    /\ \A f \in Follower : WF_viewVars(part = "publication" /\ FollowerStep(f))
    /\ WF_viewVars(part = "publication" /\ WatcherStep)

Spec == Init /\ [][Next]_<<part, opsVars, programVars, viewVars>> /\ Fairness

\* The states of Programs and of subscriptions are those the code declares.
PartsTypeOK == ProgramsTypeOK /\ PublicationsTypeOK

\* No Run stays for good in a state in which it can go on, whatever fails, is
\* cancelled or suspends on the way: RunsSettle and ProgramsSettle, each in the
\* behaviours of its component.
EveryRunSettles ==
    /\ []<>(part = "agent" => RunSettled)
    /\ []<>(part = "program" => ProgramSettled)
\* Every subscriber gets to the last event and every watcher sees the last change:
\* FollowersCatchUp in the behaviours of its component.
SubscribersCatchUp == []<>(part = "publication" => CaughtUp)
=============================================================================
