----------------------------- MODULE MCJournal -----------------------------
(* Constant definitions for the TLC runs of Journal. *)
EXTENDS Journal, TLC, FiniteSetsExt
CONSTANTS h1, h2, f1, f2, c1, c2, i1, i2

\* One caller per host: the fiber is named like its host.
OwnHost == [h \in Hosts |-> h]
OneHost == f1 :> h1 @@ f2 :> h1

\* c1 is submitted with two inputs, the other identities with one.
SomeCommands == {[id |-> c, input |-> i1] : c \in Ids} \cup {[id |-> c1, input |-> i2]}
PlainCommands == {[id |-> c, input |-> i1] : c \in Ids}
UnitSize == [c \in Ids |-> 1]
Symmetry == Permutations(Hosts) \cup Permutations(Ids)
MixedSize == [c \in Ids |-> IF c = c1 THEN 2 ELSE 1]

\* A host without caches can always recover within the byte limit: the commits
\* after the newest snapshot weigh at most MaxReplayBytes.
RecoveryBytesBounded ==
    \E base \in snapshots \cup {NoLog} :
        MapThenSumSet(LAMBDA x : Size[x.entry.id],
                      {x \in commits : Slot(x) > Len(base)}) <= MaxReplayBytes
=============================================================================
