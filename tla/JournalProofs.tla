--------------------------- MODULE JournalProofs ---------------------------
(***************************************************************************)
(* Proofs about Journal for every number of hosts, fibers and commands,    *)
(* every snapshot interval and every number of PUTs in flight.             *)
(***************************************************************************)
EXTENDS Journal, TLAPS

\* A call that reached its commit phase carries a command.
Committing ==
    \A c \in Fibers : pc[c] \in {"prepared", "created", "reconcile", "found", "retry"}
                      => command[c] \in Commands
\* A call about to be acknowledged loaded its own command last.
Settled ==
    \A c \in Fibers : pc[c] \in {"created", "found"} =>
        /\ loaded[c].log # NoLog
        /\ LastEntry(loaded[c]).id = command[c].id
        /\ LastEntry(loaded[c]).input = command[c].input
TypeInv == TypeOK /\ Committing /\ Settled

LEMMA EmptyIsLoaded == EmptyLoaded \in Loaded /\ NoLog \in Log
BY DEF EmptyLoaded, Loaded, NoLog, Log

LEMMA DigestIsLog ==
    ASSUME NEW x \in Commit
    PROVE  /\ Digest(x) \in Log
           /\ Len(Digest(x)) = Slot(x)
           /\ Digest(x) # NoLog
           /\ Digest(x)[Len(Digest(x))] = x.entry
           /\ Slot(x) \in Nat \ {0}
BY DEF Commit, Digest, Slot, Log, NoLog, Entry

LEMMA AdvanceIsLoaded ==
    ASSUME NEW l \in Loaded, NEW x \in Commit
    PROVE  /\ Advance(l, x) \in Loaded
           /\ Advance(l, x).log = Digest(x)
           /\ Advance(l, x).replayRecords = l.replayRecords + 1
           /\ Advance(l, x).snapshotKey = l.snapshotKey
<1>1. Digest(x) \in Log
  BY DigestIsLog
<1>2. Size[x.entry.id] \in Nat
  BY ConstantsAssumption DEF Commit, Entry
<1> QED
  BY <1>1, <1>2 DEF Advance, Loaded

LEMMA PublishedIsLoaded ==
    ASSUME NEW l \in Loaded
    PROVE  /\ Published(l) \in Loaded
           /\ Published(l).log = l.log
           /\ Published(l).replayRecords = 0
           /\ Published(l).snapshotKey = l.snapshotKey
BY DEF Published, Loaded

LEMMA FromSnapshotIsLoaded ==
    ASSUME NEW s \in Log
    PROVE  /\ FromSnapshot(s) \in Loaded
           /\ FromSnapshot(s).log = s
           /\ FromSnapshot(s).snapshotKey = s
           /\ FromSnapshot(s).replayRecords = 0
BY EmptyIsLoaded DEF FromSnapshot, EmptyLoaded, Loaded

LEMMA ReceiptOfIsEntry ==
    ASSUME NEW l \in Loaded, NEW id \in Ids, HasReceipt(l, id)
    PROVE  /\ ReceiptOf(l, id) \in Entry
           /\ \E k \in DOMAIN l.log : ReceiptOf(l, id) = l.log[k] /\ l.log[k].id = id
<1>1. PICK k \in DOMAIN l.log : l.log[k].id = id
  BY DEF HasReceipt
<1> DEFINE j == CHOOSE i \in DOMAIN l.log : l.log[i].id = id
<1>2. j \in DOMAIN l.log /\ l.log[j].id = id
  BY <1>1
<1> HIDE DEF j
<1>3. l.log \in Seq(Entry)
  BY DEF Loaded, Log
<1>4. l.log[j] \in Entry
  BY <1>2, <1>3
<1> QED
  BY <1>2, <1>4 DEF ReceiptOf, j

LEMMA AbandonIsLate ==
    ASSUME NEW p \in LateCommit, NEW S
    PROVE  /\ Abandon(p, S) \in LateCommit
           /\ Abandon(p, S).commit = p.commit
           /\ Abandon(p, S).by = p.by \/ Abandon(p, S).by = Nobody
           /\ p.by \in S => Abandon(p, S).by = Nobody
BY DEF Abandon, LateCommit

LEMMA TransitionIsCommit ==
    ASSUME TypeOK, Committing, NEW c \in Fibers, pc[c] = "prepared"
    PROVE  Transition(c) \in Commit
<1>1. command[c] \in Commands /\ command[c].id \in Ids /\ command[c].input \in Inputs
  BY ConstantsAssumption DEF Committing
<1>2. loaded[c].log \in Log /\ Len(loaded[c].log) + 1 \in Nat
  BY DEF TypeOK, Loaded, Log
<1> QED
  BY <1>1, <1>2 DEF Transition, Mine, Commit, Entry

-----------------------------------------------------------------------------
(* Type correctness.  The store and the caches are typed apart from the     *)
(* frames of the calls: most actions disturb only one of the two.           *)

StoreTypes ==
    /\ commits \subseteq Commit
    /\ snapshots \subseteq Log
    /\ discoverable \in BOOLEAN
    /\ lateCommits \subseteq LateCommit
    /\ lateSnapshots \subseteq Log
    /\ verified \in [Hosts -> Loaded]
    /\ verifiedSnapshot \in [Hosts -> Log]
FrameTypes ==
    /\ pc \in [Fibers -> PCs]
    /\ command \in [Fibers -> Commands \cup {ReadHead}]
    /\ known \in [Fibers -> Loaded]
    /\ latest \in [Fibers -> Nat]
    /\ snapshot \in [Fibers -> Log]
    /\ loaded \in [Fibers -> Loaded]
    /\ conflicts \in [Fibers -> Nat]
    /\ result \in [Fibers -> Result]
Frames == FrameTypes /\ Committing /\ Settled

LEMMA TypeParts == TypeInv <=> StoreTypes /\ Frames
BY DEF TypeInv, TypeOK, StoreTypes, Frames, FrameTypes

LEMMA InitTypes == Init => TypeInv
<1> SUFFICES ASSUME Init PROVE StoreTypes /\ Frames
  BY TypeParts
<1>1. StoreTypes
  BY EmptyIsLoaded DEF Init, StoreTypes
<1>2. FrameTypes
  <2>1. NoResult \in Result /\ "idle" \in PCs
    BY DEF NoResult, Result, Outcomes, PCs
  <2> QED
    BY <2>1, EmptyIsLoaded DEF Init, FrameTypes
<1>3. Committing /\ Settled
  BY DEF Init, Committing, Settled
<1> QED
  BY <1>1, <1>2, <1>3 DEF Frames

LEMMA ReturnFrames ==
    ASSUME Frames, NEW c \in Fibers, NEW o \in Outcomes, NEW r \in Nat, Return(c, o, r)
    PROVE  Frames'
<1> DEFINE e == [outcome |-> o, receipt |-> r]
<1>1. e \in Result
  BY DEF Result
<1>2. result' = [result EXCEPT ![c] = e]
  BY DEF Return
<1> HIDE DEF e
<1>3. FrameTypes'
  <2>1. pc' \in [Fibers -> PCs]
    BY DEF Frames, FrameTypes, Return, Go, PCs
  <2>2. UNCHANGED command /\ result' \in [Fibers -> Result]
    BY <1>1, <1>2 DEF Frames, FrameTypes, Return
  <2>3. known' \in [Fibers -> Loaded] /\ loaded' \in [Fibers -> Loaded]
    BY EmptyIsLoaded DEF Frames, FrameTypes, Return, EndLoad
  <2>4. snapshot' \in [Fibers -> Log]
    BY EmptyIsLoaded DEF Frames, FrameTypes, Return, EndLoad
  <2>5. latest' \in [Fibers -> Nat] /\ conflicts' \in [Fibers -> Nat]
    BY DEF Frames, FrameTypes, Return, EndLoad
  <2> QED
    BY <2>1, <2>2, <2>3, <2>4, <2>5 DEF Frames, FrameTypes
<1>4. Committing' /\ Settled'
  BY DEF Frames, FrameTypes, Committing, Settled, Return, Go
<1> QED
  BY <1>3, <1>4 DEF Frames

\* A head that is typed stays typed when a host remembers it.
LEMMA RememberTypes ==
    ASSUME StoreTypes, NEW h \in Hosts, NEW l \in Loaded, Remember(h, l)
    PROVE  verified' \in [Hosts -> Loaded]
BY DEF StoreTypes, Remember

LEMMA PublishTypes ==
    ASSUME StoreTypes, FrameTypes, NEW c \in Fibers, Publish(c) \/ PublishFails(c)
    PROVE  /\ snapshots' \subseteq Log
           /\ lateSnapshots' \subseteq Log
           /\ verifiedSnapshot' \in [Hosts -> Log]
<1>1. loaded[c].log \in Log /\ HostOf[c] \in Hosts
  BY ConstantsAssumption DEF FrameTypes, Loaded
<1> QED
  BY <1>1 DEF StoreTypes, Publish, PublishFails

\* The state functions that the frames of the calls are typed by.
LEMMA FrameFacts ==
    ASSUME StoreTypes, Frames, NEW c \in Fibers
    PROVE  /\ HostOf[c] \in Hosts
           /\ verified[HostOf[c]] \in Loaded /\ verifiedSnapshot[HostOf[c]] \in Log
           /\ loaded[c] \in Loaded /\ loaded[c].log \in Log /\ Len(loaded[c].log) \in Nat
           /\ known[c] \in Loaded /\ known[c].log \in Log /\ Len(known[c].log) \in Nat
           /\ known[c].snapshotKey \in Log
           /\ snapshot[c] \in Log /\ latest[c] \in Nat /\ conflicts[c] \in Nat
           /\ command[c] \in Commands \cup {ReadHead}
           /\ TypeOK /\ Committing /\ Settled
<1>1. HostOf[c] \in Hosts
  BY ConstantsAssumption
<1>2. verified[HostOf[c]] \in Loaded /\ verifiedSnapshot[HostOf[c]] \in Log
  BY <1>1 DEF StoreTypes
<1>3. /\ loaded[c] \in Loaded /\ known[c] \in Loaded
      /\ snapshot[c] \in Log /\ latest[c] \in Nat /\ conflicts[c] \in Nat
      /\ command[c] \in Commands \cup {ReadHead}
  BY DEF Frames, FrameTypes
<1>4. \A l \in Loaded : /\ l.log \in Log /\ l.snapshotKey \in Log
                        /\ Len(l.log) \in Nat
  BY DEF Loaded, Log
<1>5. TypeOK /\ Committing /\ Settled
  BY TypeParts DEF TypeInv
<1> QED
  BY <1>1, <1>2, <1>3, <1>4, <1>5

LEMMA FailuresAreOutcomes ==
    /\ {"limit", "transport", "corruption", "indeterminate", "contention",
        "rejected", "input-conflict"} \subseteq Outcomes
    /\ {"read", "committed"} \subseteq Outcomes
BY DEF Outcomes, Failures

\* A call goes on: its frame changes, its answer does not.
LEMMA GoesOn ==
    ASSUME Frames, NEW c \in Fibers, NEW where \in PCs, Go(c, where),
           UNCHANGED <<command, result>>,
           known' \in [Fibers -> Loaded], latest' \in [Fibers -> Nat],
           snapshot' \in [Fibers -> Log], loaded' \in [Fibers -> Loaded],
           conflicts' \in [Fibers -> Nat],
           \A i \in Fibers \ {c} : loaded'[i] = loaded[i],
           where \in {"prepared", "created", "reconcile", "found", "retry"}
              => command[c] \in Commands,
           where \in {"created", "found"} =>
              /\ loaded'[c].log # NoLog
              /\ LastEntry(loaded'[c]).id = command[c].id
              /\ LastEntry(loaded'[c]).input = command[c].input
    PROVE  Frames'
<1>1. FrameTypes'
  BY DEF Frames, FrameTypes, Go
<1>2. Committing'
  BY DEF Frames, FrameTypes, Committing, Go
<1>3. Settled'
  BY DEF Frames, FrameTypes, Settled, Go, LastEntry
<1> QED
  BY <1>1, <1>2, <1>3 DEF Frames

LEMMA ListCommitsTypes ==
    ASSUME StoreTypes, Frames, NEW c \in Fibers, ListCommits(c)
    PROVE  StoreTypes' /\ Frames'
<1>1. StoreTypes'
  BY DEF ListCommits, StoreTypes, storeVars, hostVars
<1>2. CASE Return(c, "corruption", 0)
  BY <1>1, <1>2, FailuresAreOutcomes, ReturnFrames
<1>3. ASSUME NEW last \in Nat, Go(c, "listSnapshots"),
             latest' = [latest EXCEPT ![c] = last],
             UNCHANGED <<command, known, snapshot, loaded, conflicts, result>>
      PROVE  Frames'
  BY <1>3, GoesOn DEF Frames, FrameTypes, PCs
<1>4. \A x \in commits : Slot(x) \in Nat
  BY DigestIsLog DEF StoreTypes
<1> QED
  BY <1>1, <1>2, <1>3, <1>4, FrameFacts DEF ListCommits

LEMMA ListSnapshotsTypes ==
    ASSUME StoreTypes, Frames, NEW c \in Fibers, ListSnapshots(c)
    PROVE  StoreTypes' /\ Frames'
<1>1. StoreTypes'
  BY DEF ListSnapshots, StoreTypes, storeVars, hostVars
<1>2. CASE Return(c, "corruption", 0)
  BY <1>1, <1>2, FailuresAreOutcomes, ReturnFrames
<1>3. ASSUME NEW s \in Log, Go(c, "recover"), snapshot' = [snapshot EXCEPT ![c] = s],
             UNCHANGED <<command, known, latest, loaded, conflicts, result>>
      PROVE  Frames'
  BY <1>3, GoesOn DEF Frames, FrameTypes, PCs
<1>4. SnapshotCandidates(c) \subseteq Log
  BY FrameFacts DEF SnapshotCandidates, SnapshotSeed, StoreTypes
<1> QED
  BY <1>1, <1>2, <1>3, <1>4, EmptyIsLoaded DEF ListSnapshots

LEMMA RecoverTypes ==
    ASSUME StoreTypes, Frames, NEW c \in Fibers, Recover(c)
    PROVE  StoreTypes' /\ Frames'
<1>1. CASE Return(c, "corruption", 0) /\ UNCHANGED <<storeVars, hostVars>>
  BY <1>1, FailuresAreOutcomes, ReturnFrames DEF StoreTypes, storeVars, hostVars
<1> DEFINE base == IF ReusesVerified(c) THEN known[c] ELSE SnapshotBase(c)
<1>2. base \in Loaded
  BY FrameFacts, EmptyIsLoaded, FromSnapshotIsLoaded DEF SnapshotBase
<1> HIDE DEF base
<1>3. CASE /\ Go(c, "replay")
           /\ loaded' = [loaded EXCEPT ![c] = base]
           /\ \/ UNCHANGED verifiedSnapshot
              \/ verifiedSnapshot' = [verifiedSnapshot EXCEPT ![HostOf[c]] = snapshot[c]]
           /\ UNCHANGED <<storeVars, verified, command, loadVars, conflicts, result>>
  <2>1. StoreTypes'
    BY <1>3, FrameFacts DEF StoreTypes, storeVars
  <2>2. loaded' \in [Fibers -> Loaded] /\ \A i \in Fibers \ {c} : loaded'[i] = loaded[i]
    BY <1>2, <1>3 DEF Frames, FrameTypes
  <2>3. /\ known' \in [Fibers -> Loaded] /\ latest' \in [Fibers -> Nat]
        /\ snapshot' \in [Fibers -> Log] /\ conflicts' \in [Fibers -> Nat]
    BY <1>3 DEF Frames, FrameTypes, loadVars
  <2> QED
    BY <1>3, <2>1, <2>2, <2>3, GoesOn DEF PCs
<1> QED
  BY <1>1, <1>3 DEF Recover, base

LEMMA ReplayNextTypes ==
    ASSUME StoreTypes, Frames, NEW c \in Fibers, ReplayNext(c)
    PROVE  StoreTypes' /\ Frames'
<1>1. StoreTypes'
  BY DEF ReplayNext, StoreTypes, storeVars, hostVars
<1>2. CASE Return(c, "limit", 0) \/ Return(c, "corruption", 0)
  BY <1>1, <1>2, FailuresAreOutcomes, ReturnFrames
<1>3. ASSUME NEW x \in commits,
             loaded' = [loaded EXCEPT ![c] = Advance(loaded[c], x)],
             UNCHANGED <<pc, command, loadVars, conflicts, result>>
      PROVE  Frames'
  <2>1. Advance(loaded[c], x) \in Loaded
    BY AdvanceIsLoaded, FrameFacts DEF StoreTypes
  <2>2. FrameTypes' /\ Committing'
    BY <1>3, <2>1 DEF Frames, FrameTypes, Committing, loadVars
  <2>3. pc[c] = "replay"
    BY DEF ReplayNext, Replaying
  <2>4. Settled'
    BY <1>3, <2>3 DEF Frames, FrameTypes, Settled, LastEntry
  <2> QED
    BY <2>2, <2>4 DEF Frames
<1> QED
  BY <1>1, <1>2, <1>3 DEF ReplayNext

LEMMA EndLoadTypes ==
    ASSUME Frames, NEW c \in Fibers, EndLoad(c)
    PROVE  /\ known' \in [Fibers -> Loaded] /\ latest' \in [Fibers -> Nat]
           /\ snapshot' \in [Fibers -> Log]
BY EmptyIsLoaded DEF EndLoad, Frames, FrameTypes

LEMMA FinishLoadTypes ==
    ASSUME StoreTypes, Frames, NEW c \in Fibers, FinishLoad(c)
    PROVE  StoreTypes' /\ Frames'
<1>1. verified' \in [Hosts -> Loaded]
  BY RememberTypes, FrameFacts DEF FinishLoad
<1>2. StoreTypes'
  BY <1>1 DEF FinishLoad, StoreTypes, storeVars
<1>3. UNCHANGED <<command, loaded, conflicts, result>> /\ Go(c, "loaded") /\ EndLoad(c)
  BY DEF FinishLoad
<1>4. loaded' \in [Fibers -> Loaded] /\ conflicts' \in [Fibers -> Nat]
  BY <1>3 DEF Frames, FrameTypes
<1> QED
  BY <1>2, <1>3, <1>4, EndLoadTypes, GoesOn DEF PCs

\* The actions that only return.
LEMMA ReturningTypes ==
    ASSUME StoreTypes, Frames, NEW c \in Fibers,
           StoreFails(c) \/ ReturnHead(c) \/ ReturnReceipt(c) \/ Refuse(c)
    PROVE  StoreTypes' /\ Frames'
<1>1. StoreTypes'
  BY DEF StoreFails, ReturnHead, ReturnReceipt, Refuse, StoreTypes, storeVars, hostVars
<1>2. CASE StoreFails(c) \/ Refuse(c)
  BY <1>1, <1>2, ReturnFrames, FailuresAreOutcomes DEF StoreFails, Refuse
<1>3. CASE ReturnHead(c)
  BY <1>1, <1>3, ReturnFrames, FailuresAreOutcomes, FrameFacts DEF ReturnHead
<1>4. CASE ReturnReceipt(c)
  <2>1. Mine(c) \in Ids
    BY <1>4, FrameFacts, ConstantsAssumption DEF ReturnReceipt, Mine
  <2>2. ReceiptOf(loaded[c], Mine(c)).receipt \in Nat
    BY <1>4, <2>1, ReceiptOfIsEntry, FrameFacts DEF ReturnReceipt, Entry
  <2> QED
    BY <1>1, <1>4, <2>2, ReturnFrames, FailuresAreOutcomes DEF ReturnReceipt, Answer
<1> QED
  BY <1>2, <1>3, <1>4

LEMMA PrepareTypes ==
    ASSUME StoreTypes, Frames, NEW c \in Fibers, Prepare(c)
    PROVE  StoreTypes' /\ Frames'
<1>1. StoreTypes'
  BY DEF Prepare, StoreTypes, hostVars
<1>2. command[c] \in Commands
  BY FrameFacts DEF Prepare
<1>3. /\ Go(c, "prepared") /\ UNCHANGED <<command, result>>
      /\ UNCHANGED <<known, latest, snapshot, loaded, conflicts>>
  BY DEF Prepare, loadVars
<1> QED
  BY <1>1, <1>2, <1>3, GoesOn DEF Frames, FrameTypes, PCs

LEMMA PublishBoundaryTypes ==
    ASSUME StoreTypes, Frames, NEW c \in Fibers, PublishBoundary(c)
    PROVE  StoreTypes' /\ Frames'
<1>1. StoreTypes'
  <2>1. Publish(c) \/ PublishFails(c)
    BY DEF PublishBoundary
  <2> QED
    BY <2>1, PublishTypes DEF PublishBoundary, StoreTypes, Frames
<1>2. CASE Return(c, "transport", 0)
  BY <1>1, <1>2, ReturnFrames, FailuresAreOutcomes
<1>3. CASE /\ loaded' = [loaded EXCEPT ![c] = Published(loaded[c])]
           /\ UNCHANGED <<pc, command, loadVars, conflicts, result>>
  <2>1. Published(loaded[c]) \in Loaded
    BY PublishedIsLoaded, FrameFacts
  <2>2. pc[c] = "prepared"
    BY DEF PublishBoundary, BoundaryDue
  <2>3. FrameTypes' /\ Committing'
    BY <1>3, <2>1 DEF Frames, FrameTypes, Committing, loadVars
  <2>4. Settled'
    BY <1>3, <2>2 DEF Frames, FrameTypes, Settled, LastEntry
  <2> QED
    BY <1>1, <2>3, <2>4 DEF Frames
<1> QED
  BY <1>2, <1>3 DEF PublishBoundary

\* What a commit record looks like, and the head that ends with it.
LEMMA TransitionFacts ==
    ASSUME StoreTypes, Frames, NEW c \in Fibers, pc[c] = "prepared"
    PROVE  LET x == Transition(c)
               l == Advance(loaded[c], x)
           IN  /\ x \in Commit
               /\ x.parent = loaded[c].log
               /\ x.entry.id = command[c].id /\ x.entry.input = command[c].input
               /\ Slot(x) = Len(loaded[c].log) + 1
               /\ l \in Loaded /\ l.log = Digest(x) /\ l.log # NoLog
               /\ LastEntry(l) = x.entry
<1> DEFINE x == Transition(c)
           l == Advance(loaded[c], x)
<1>1. x \in Commit
  BY TransitionIsCommit, FrameFacts
<1>2. /\ x.parent = loaded[c].log /\ Slot(x) = Len(loaded[c].log) + 1
      /\ x.entry.id = command[c].id /\ x.entry.input = command[c].input
  BY DEF Transition, Mine, Slot
<1> HIDE DEF x
<1>3. l \in Loaded /\ l.log = Digest(x)
  BY <1>1, AdvanceIsLoaded, FrameFacts
<1>4. l.log # NoLog /\ LastEntry(l) = x.entry
  BY <1>1, <1>3, DigestIsLog DEF LastEntry
<1> QED
  BY <1>1, <1>2, <1>3, <1>4 DEF x

LEMMA CreateTypes ==
    ASSUME StoreTypes, Frames, NEW c \in Fibers, Create(c)
    PROVE  StoreTypes' /\ Frames'
<1> DEFINE x == Transition(c)
           l == Advance(loaded[c], x)
<1>0. pc[c] = "prepared" /\ command[c] \in Commands
  BY FrameFacts DEF Create, Committing
<1>1. /\ x \in Commit /\ l \in Loaded /\ l.log # NoLog
      /\ LastEntry(l).id = command[c].id /\ LastEntry(l).input = command[c].input
  BY <1>0, TransitionFacts
<1>2. [commit |-> x, by |-> c] \in LateCommit
  BY <1>1 DEF LateCommit
<1>3. /\ commits' = commits \cup {x} \/ UNCHANGED commits
      /\ \/ lateCommits' = lateCommits \cup {[commit |-> x, by |-> c]}
         \/ UNCHANGED lateCommits
      /\ UNCHANGED <<snapshots, discoverable, lateSnapshots, verified, verifiedSnapshot>>
      /\ UNCHANGED <<command, result, known, latest, snapshot, conflicts>>
      /\ \/ Go(c, "created") /\ loaded' = [loaded EXCEPT ![c] = l]
         \/ Go(c, "reconcile") /\ UNCHANGED loaded
  BY DEF Create, hostVars, loadVars
<1> HIDE DEF x, l
<1>4. StoreTypes'
  BY <1>1, <1>2, <1>3 DEF StoreTypes
<1>5. CASE Go(c, "created") /\ loaded' = [loaded EXCEPT ![c] = l]
  <2>1. loaded' \in [Fibers -> Loaded] /\ loaded'[c] = l
        /\ \A i \in Fibers \ {c} : loaded'[i] = loaded[i]
    BY <1>1, <1>5 DEF Frames, FrameTypes
  <2>2. /\ known' \in [Fibers -> Loaded] /\ latest' \in [Fibers -> Nat]
        /\ snapshot' \in [Fibers -> Log] /\ conflicts' \in [Fibers -> Nat]
    BY <1>3 DEF Frames, FrameTypes
  <2> QED
    BY <1>0, <1>1, <1>3, <1>4, <1>5, <2>1, <2>2, GoesOn DEF PCs
<1>6. CASE Go(c, "reconcile") /\ UNCHANGED loaded
  BY <1>0, <1>3, <1>4, <1>6, GoesOn DEF PCs, Frames, FrameTypes
<1> QED
  BY <1>3, <1>5, <1>6

LEMMA IndeterminateTypes ==
    ASSUME StoreTypes, Frames, NEW c \in Fibers, Indeterminate(c)
    PROVE  StoreTypes' /\ Frames'
<1>1. StoreTypes'
  BY AbandonIsLate DEF Indeterminate, StoreTypes, Orphan, hostVars
<1> QED
  BY <1>1, ReturnFrames, FailuresAreOutcomes DEF Indeterminate

LEMMA ReconcileTypes ==
    ASSUME StoreTypes, Frames, NEW c \in Fibers, Reconcile(c)
    PROVE  StoreTypes' /\ Frames'
<1>0. PICK x \in commits : Reconcile(c)!2!(x)
  BY DEF Reconcile
<1> DEFINE l == Advance(loaded[c], x)
<1>1. x \in Commit /\ l \in Loaded /\ l.log = Digest(x)
  BY AdvanceIsLoaded, FrameFacts DEF StoreTypes
<1>2. l.log # NoLog /\ LastEntry(l) = x.entry
  BY <1>1, DigestIsLog DEF LastEntry
<1>3. command[c] \in Commands
  BY FrameFacts DEF Reconcile, Committing
<1>4. UNCHANGED verified \/ Remember(HostOf[c], l)
  BY <1>0
<1>5. StoreTypes'
  BY <1>1, <1>4, RememberTypes, FrameFacts DEF StoreTypes, Reconcile, storeVars
<1>6. \/ \E o \in {"corruption", "input-conflict", "contention"} : Return(c, o, 0)
      \/ /\ x.entry.id = Mine(c) /\ x.entry.input = command[c].input
         /\ Go(c, "found")
         /\ loaded' = [loaded EXCEPT ![c] = l]
         /\ UNCHANGED <<command, loadVars, conflicts, result>>
      \/ /\ Go(c, "retry")
         /\ loaded' = [loaded EXCEPT ![c] = EmptyLoaded]
         /\ conflicts' = [conflicts EXCEPT ![c] = @ + 1]
         /\ UNCHANGED <<command, loadVars, result>>
  BY <1>0
<1> HIDE DEF l
<1>7. CASE \E o \in {"corruption", "input-conflict", "contention"} : Return(c, o, 0)
  BY <1>5, <1>7, ReturnFrames, FailuresAreOutcomes
<1>8. CASE /\ x.entry.id = Mine(c) /\ x.entry.input = command[c].input
           /\ Go(c, "found")
           /\ loaded' = [loaded EXCEPT ![c] = l]
           /\ UNCHANGED <<command, loadVars, conflicts, result>>
  <2>1. loaded' \in [Fibers -> Loaded] /\ loaded'[c] = l
        /\ \A i \in Fibers \ {c} : loaded'[i] = loaded[i]
    BY <1>1, <1>8 DEF Frames, FrameTypes
  <2>2. /\ known' \in [Fibers -> Loaded] /\ latest' \in [Fibers -> Nat]
        /\ snapshot' \in [Fibers -> Log] /\ conflicts' \in [Fibers -> Nat]
    BY <1>8 DEF Frames, FrameTypes, loadVars
  <2> QED
    BY <1>2, <1>3, <1>5, <1>8, <2>1, <2>2, GoesOn DEF PCs, Mine
<1>9. CASE /\ Go(c, "retry")
           /\ loaded' = [loaded EXCEPT ![c] = EmptyLoaded]
           /\ conflicts' = [conflicts EXCEPT ![c] = @ + 1]
           /\ UNCHANGED <<command, loadVars, result>>
  <2>1. loaded' \in [Fibers -> Loaded] /\ \A i \in Fibers \ {c} : loaded'[i] = loaded[i]
    BY <1>9, EmptyIsLoaded DEF Frames, FrameTypes
  <2>2. /\ known' \in [Fibers -> Loaded] /\ latest' \in [Fibers -> Nat]
        /\ snapshot' \in [Fibers -> Log] /\ conflicts' \in [Fibers -> Nat]
    BY <1>9 DEF Frames, FrameTypes, loadVars
  <2> QED
    BY <1>3, <1>5, <1>9, <2>1, <2>2, GoesOn DEF PCs
<1> QED
  BY <1>6, <1>7, <1>8, <1>9

LEMMA BeginLoadTypes ==
    ASSUME StoreTypes, Frames, NEW c \in Fibers, BeginLoad(c)
    PROVE  /\ known' \in [Fibers -> Loaded] /\ latest' \in [Fibers -> Nat]
           /\ snapshot' \in [Fibers -> Log]
BY FrameFacts DEF BeginLoad, Frames, FrameTypes

LEMMA RetryTypes ==
    ASSUME StoreTypes, Frames, NEW c \in Fibers, Retry(c)
    PROVE  StoreTypes' /\ Frames'
<1>1. StoreTypes'
  BY DEF Retry, StoreTypes, storeVars, hostVars
<1>2. /\ BeginLoad(c) /\ Go(c, "list")
      /\ UNCHANGED <<command, loaded, conflicts, result>>
  BY DEF Retry, BeginLoad
<1>3. loaded' \in [Fibers -> Loaded] /\ conflicts' \in [Fibers -> Nat]
  BY <1>2 DEF Frames, FrameTypes
<1> QED
  BY <1>1, <1>2, <1>3, BeginLoadTypes, GoesOn DEF PCs

LEMMA SettleTypes ==
    ASSUME StoreTypes, Frames, NEW c \in Fibers, Settle(c)
    PROVE  StoreTypes' /\ Frames'
<1>1. verified' \in [Hosts -> Loaded]
  BY RememberTypes, FrameFacts DEF Settle, StoreTypes
<1>2. snapshots' \subseteq Log /\ lateSnapshots' \subseteq Log
      /\ verifiedSnapshot' \in [Hosts -> Log]
  BY PublishTypes DEF Settle, StoreTypes, Frames
<1>3. StoreTypes'
  BY <1>1, <1>2 DEF Settle, StoreTypes
<1>4. LastEntry(loaded[c]).receipt \in Nat
  <2>1. loaded[c].log \in Seq(Entry) /\ loaded[c].log # NoLog
    BY FrameFacts DEF Settle, Settled, Log
  <2>2. LastEntry(loaded[c]) \in Entry
    BY <2>1 DEF LastEntry, NoLog
  <2> QED
    BY <2>2 DEF Entry
<1> QED
  BY <1>3, <1>4, ReturnFrames, FailuresAreOutcomes DEF Settle

LEMMA CallTypes ==
    ASSUME StoreTypes, Frames, NEW c \in Fibers, NEW d \in Commands \cup {ReadHead},
           Call(c, d)
    PROVE  StoreTypes' /\ Frames'
<1>1. StoreTypes'
  BY DEF Call, StoreTypes, storeVars, hostVars
<1>2. NoResult \in Result
  BY DEF NoResult, Result, Outcomes
<1>3. /\ BeginLoad(c) /\ Go(c, "list") /\ command' = [command EXCEPT ![c] = d]
      /\ result' = [result EXCEPT ![c] = NoResult] /\ UNCHANGED <<loaded, conflicts>>
  BY DEF Call, BeginLoad
<1>4. FrameTypes'
  <2>1. pc' \in [Fibers -> PCs]
    BY <1>3 DEF Frames, FrameTypes, Go, PCs
  <2>2. command' \in [Fibers -> Commands \cup {ReadHead}] /\ result' \in [Fibers -> Result]
    BY <1>2, <1>3 DEF Frames, FrameTypes
  <2> QED
    BY <1>3, <2>1, <2>2, BeginLoadTypes DEF Frames, FrameTypes
<1>5. Committing' /\ Settled'
  BY <1>3 DEF Frames, FrameTypes, Committing, Settled, Go
<1> QED
  BY <1>1, <1>4, <1>5 DEF Frames

LEMMA CrashTypes ==
    ASSUME StoreTypes, Frames, NEW h \in Hosts, Crash(h)
    PROVE  StoreTypes' /\ Frames'
<1> DEFINE lost == {c \in Fibers : HostOf[c] = h /\ pc[c] # "idle"}
           e == [outcome |-> "crashed", receipt |-> 0]
<1>1. e \in Result /\ "idle" \in PCs
  BY DEF Result, Outcomes, PCs
<1>2. StoreTypes'
  <2>1. lateCommits' = {Abandon(p, lost) : p \in lateCommits}
    BY DEF Crash
  <2> HIDE DEF lost
  <2>2. lateCommits' \subseteq LateCommit
    BY <2>1, AbandonIsLate DEF StoreTypes
  <2> QED
    BY <2>2, EmptyIsLoaded DEF Crash, StoreTypes
<1>3. /\ pc' = [c \in Fibers |-> IF c \in lost THEN "idle" ELSE pc[c]]
      /\ result' = [c \in Fibers |-> IF c \in lost THEN e ELSE result[c]]
      /\ known' = [c \in Fibers |-> IF c \in lost THEN EmptyLoaded ELSE known[c]]
      /\ latest' = [c \in Fibers |-> IF c \in lost THEN 0 ELSE latest[c]]
      /\ snapshot' = [c \in Fibers |-> IF c \in lost THEN NoLog ELSE snapshot[c]]
      /\ loaded' = [c \in Fibers |-> IF c \in lost THEN EmptyLoaded ELSE loaded[c]]
      /\ conflicts' = [c \in Fibers |-> IF c \in lost THEN 0 ELSE conflicts[c]]
      /\ UNCHANGED command
  BY DEF Crash
<1> HIDE DEF lost, e
<1>4. FrameTypes'
  BY <1>1, <1>3, EmptyIsLoaded DEF Frames, FrameTypes
<1>5. Committing' /\ Settled'
  BY <1>3 DEF Frames, FrameTypes, Committing, Settled, LastEntry
<1> QED
  BY <1>2, <1>4, <1>5 DEF Frames

\* The steps of the network leave every frame alone.
LEMMA NetworkTypes ==
    ASSUME StoreTypes, Frames,
           \/ \E c \in Fibers : SnapshotLands(c)
           \/ \E p \in lateCommits : CommitArrives(p)
           \/ \E s \in lateSnapshots : SnapshotArrives(s)
           \/ UNCHANGED vars
    PROVE  StoreTypes' /\ Frames'
<1>1. UNCHANGED <<pc, command, known, latest, snapshot, loaded, conflicts, result>>
  BY DEF SnapshotLands, CommitArrives, SnapshotArrives, vars, loadVars
<1>2. Frames'
  BY <1>1 DEF Frames, FrameTypes, Committing, Settled, LastEntry
<1>3. ASSUME \E c \in Fibers : SnapshotLands(c) PROVE StoreTypes'
  BY <1>3, FrameFacts DEF SnapshotLands, StoreTypes, hostVars
<1>4. ASSUME \E p \in lateCommits : CommitArrives(p) PROVE StoreTypes'
  BY <1>4 DEF CommitArrives, StoreTypes, LateCommit, hostVars
<1>5. ASSUME \E s \in lateSnapshots : SnapshotArrives(s) PROVE StoreTypes'
  BY <1>5 DEF SnapshotArrives, StoreTypes, hostVars
<1>6. ASSUME UNCHANGED vars PROVE StoreTypes'
  BY <1>6 DEF vars, StoreTypes
<1>7. StoreTypes'
  BY <1>3, <1>4, <1>5, <1>6
<1> QED
  BY <1>2, <1>7

LEMMA TypeStep == TypeInv /\ [Next]_vars => TypeInv'
<1> SUFFICES ASSUME StoreTypes, Frames, [Next]_vars
             PROVE  StoreTypes' /\ Frames'
  BY TypeParts DEF TypeInv, TypeOK, StoreTypes, FrameTypes, Frames, Committing, Settled, LastEntry
<1>1. ASSUME NEW c \in Fibers, Proceed(c)
      PROVE  StoreTypes' /\ Frames'
  BY <1>1, ListCommitsTypes, ListSnapshotsTypes, RecoverTypes, ReplayNextTypes,
     FinishLoadTypes, ReturningTypes, PrepareTypes, PublishBoundaryTypes, CreateTypes,
     IndeterminateTypes, ReconcileTypes, RetryTypes, SettleTypes
     DEF Proceed, Load
<1> QED
  BY <1>1, CallTypes, ReturningTypes, CrashTypes, NetworkTypes DEF Next

\* The model never leaves its types: no cached, listed or replayed value is
\* anything but a head, a snapshot or a record of the protocol.
THEOREM TypeCorrect == Spec => []TypeOK
<1>1. TypeInv => TypeOK
  BY DEF TypeInv
<1> QED
  BY <1>1, InitTypes, TypeStep, PTL DEF Spec

-----------------------------------------------------------------------------
(* The safety of Journal, by one inductive invariant.  Its idea: every log *)
(* that lives anywhere -- in a record's parent, a snapshot, a cache, a     *)
(* frame or a PUT in flight -- is a prefix of the one committed history,   *)
(* names no identity twice, and says truthfully how far it is from a       *)
(* published snapshot.                                                     *)


\* A head loaded or cached: committed history, a published snapshot key, and
\* a replay count that reaches back to a published snapshot.
Clean(C, S, l) ==
    /\ PrefixOf(C, l.log)
    /\ l.snapshotKey \in S \cup {NoLog}
    /\ \E base \in S \cup {NoLog} : Len(l.log) <= Len(base) + l.replayRecords

\* A record written, or about to be.
Fresh(x) == \A k \in DOMAIN x.parent : x.parent[k].id # x.entry.id
Recoverable(S, x) == \E base \in S \cup {NoLog} : Slot(x) <= Len(base) + SnapshotEvery
Sound(C, S, x) == PrefixOf(C, x.parent) /\ Fresh(x) /\ Recoverable(S, x)

StoreSafe ==
    /\ \A x, y \in commits : Slot(x) = Slot(y) => x = y
    /\ \A x \in commits : Sound(commits, snapshots, x)
    /\ \A p \in lateCommits : Sound(commits, snapshots, p.commit)
    /\ \A s \in snapshots \cup lateSnapshots : PrefixOf(commits, s)
CachesSafe ==
    \A h \in Hosts : /\ Clean(commits, snapshots, verified[h])
                     /\ verifiedSnapshot[h] \in snapshots \cup {NoLog}
Acknowledged(c) ==
    result[c].outcome = "committed" =>
        \E x \in commits : x.entry = [id |-> command[c].id, input |-> command[c].input,
                                     receipt |-> result[c].receipt]
FrameSafe(c) ==
    /\ Clean(commits, snapshots, known[c])
    /\ Clean(commits, snapshots, loaded[c])
    /\ snapshot[c] \in snapshots \cup {NoLog}
    /\ pc[c] \in {"prepared", "reconcile"} => ~HasReceipt(loaded[c], command[c].id)
    /\ Acknowledged(c)
FramesSafe == \A c \in Fibers : FrameSafe(c)
\* A PUT in flight for a free slot belongs to a call that is about to read it.
Attempts ==
    \A p \in lateCommits :
        p.by # Nobody /\ SlotFree(Slot(p.commit)) =>
            /\ p.by \in Fibers
            /\ pc[p.by] = "reconcile"
            /\ Slot(p.commit) = Len(loaded[p.by].log) + 1
Safe == StoreSafe /\ CachesSafe /\ FramesSafe /\ Attempts

-----------------------------------------------------------------------------
(* Lemmas about logs and heads.                                            *)

LEMMA CleanGrows ==
    ASSUME NEW C, NEW S, NEW D, NEW T, C \subseteq D, S \subseteq T, NEW l,
           Clean(C, S, l)
    PROVE  Clean(D, T, l)
BY DEF Clean, PrefixOf

LEMMA SoundGrows ==
    ASSUME NEW C, NEW S, NEW D, NEW T, C \subseteq D, S \subseteq T, NEW x,
           Sound(C, S, x)
    PROVE  Sound(D, T, x)
BY DEF Sound, PrefixOf, Recoverable

LEMMA EmptyIsClean == \A C, S : Clean(C, S, EmptyLoaded)
<1> SUFFICES ASSUME NEW C, NEW S PROVE Clean(C, S, EmptyLoaded)
  OBVIOUS
<1>1. PrefixOf(C, NoLog)
  BY DEF PrefixOf, NoLog
<1>2. Len(NoLog) <= Len(NoLog) + 0
  BY DEF NoLog
<1> QED
  BY <1>1, <1>2 DEF Clean, EmptyLoaded

LEMMA DigestIsPrefix ==
    ASSUME NEW C, C \subseteq Commit, NEW x \in C, PrefixOf(C, x.parent)
    PROVE  PrefixOf(C, Digest(x))
<1>1. x.parent \in Log /\ x.entry \in Entry
  BY DEF Commit
<1> SUFFICES ASSUME NEW k \in DOMAIN Digest(x)
             PROVE  \E y \in C : Slot(y) = k /\ y.entry = Digest(x)[k]
  BY DEF PrefixOf
<1>2. CASE k \in DOMAIN x.parent
  <2>1. Digest(x)[k] = x.parent[k]
    BY <1>1, <1>2 DEF Digest, Log
  <2> QED
    BY <2>1, <1>2 DEF PrefixOf
<1>3. CASE k = Slot(x)
  BY <1>1, <1>3, DigestIsLog
<1>4. k \in DOMAIN x.parent \/ k = Slot(x)
  BY <1>1 DEF Digest, Slot, Log
<1> QED
  BY <1>2, <1>3, <1>4

LEMMA AdvanceIsClean ==
    ASSUME NEW C, C \subseteq Commit, NEW S, S \subseteq Log, NEW x \in C, NEW l \in Loaded,
           Clean(C, S, l), x.parent = l.log
    PROVE  Clean(C, S, Advance(l, x))
<1>1. x \in Commit
  OBVIOUS
<1>2. PrefixOf(C, Digest(x))
  BY DigestIsPrefix DEF Clean
<1>3. PICK base \in S \cup {NoLog} : Len(l.log) <= Len(base) + l.replayRecords
  BY DEF Clean
<1>4. Len(base) \in Nat /\ Len(l.log) \in Nat /\ l.replayRecords \in Nat
  BY EmptyIsLoaded DEF Loaded, Log
<1>5. Len(Digest(x)) = Len(l.log) + 1
  BY <1>1, DigestIsLog DEF Slot
<1>6. Len(Digest(x)) <= Len(base) + (l.replayRecords + 1)
  BY <1>3, <1>4, <1>5
<1> QED
  BY <1>1, <1>2, <1>6, AdvanceIsLoaded DEF Clean

LEMMA SnapshotIsClean ==
    ASSUME NEW C, NEW S, S \subseteq Log, NEW s \in S, PrefixOf(C, s)
    PROVE  Clean(C, S, FromSnapshot(s))
<1>1. Len(s) <= Len(s) + 0
  BY DEF Log
<1> QED
  BY <1>1, FromSnapshotIsLoaded DEF Clean

\* Publishing a clean head leaves it clean without anything to replay.
LEMMA PublishedIsClean ==
    ASSUME NEW C, NEW S, NEW l \in Loaded, Clean(C, S, l)
    PROVE  Clean(C, S \cup {l.log}, Published(l))
<1>1. Len(l.log) <= Len(l.log) + 0
  BY DEF Loaded, Log
<1> QED
  BY <1>1, PublishedIsLoaded DEF Clean

\* Two records of one history with the same identity are the same record.
LEMMA SoundIsOnce ==
    ASSUME NEW C, C \subseteq Commit, NEW S,
           \A x, y \in C : Slot(x) = Slot(y) => x = y,
           \A x \in C : Sound(C, S, x)
    PROVE  \A x, y \in C : x.entry.id = y.entry.id => x = y
<1>1. ASSUME NEW x \in C, NEW y \in C, x.entry.id = y.entry.id, Slot(x) < Slot(y)
      PROVE  FALSE
  <2>1. Slot(x) \in DOMAIN y.parent
    <3>1. y.parent \in Log /\ Slot(x) \in Nat \ {0} /\ Slot(y) = Len(y.parent) + 1
      BY DigestIsLog DEF Commit, Slot
    <3> QED
      BY <1>1, <3>1 DEF Log
  <2>2. PICK z \in C : Slot(z) = Slot(x) /\ z.entry = y.parent[Slot(x)]
    BY <2>1 DEF Sound, PrefixOf
  <2>3. z = x
    BY <2>2
  <2> QED
    BY <1>1, <2>1, <2>2, <2>3 DEF Sound, Fresh
<1>2. \A x \in C : Slot(x) \in Nat
  BY DigestIsLog
<1> QED
  BY <1>1, <1>2

-----------------------------------------------------------------------------
(* What a step leaves alone.                                               *)

LEMMA StoreGrows == [Next]_vars => commits \subseteq commits' /\ snapshots \subseteq snapshots'
<1> SUFFICES ASSUME [Next]_vars
             PROVE  commits \subseteq commits' /\ snapshots \subseteq snapshots'
  OBVIOUS
<1>1. ASSUME NEW c \in Fibers, Proceed(c)
      PROVE  commits \subseteq commits' /\ snapshots \subseteq snapshots'
  <2>1. CASE Load(c) \/ ReturnHead(c) \/ ReturnReceipt(c) \/ Refuse(c)
    BY <2>1 DEF Load, ListCommits, ListSnapshots, Recover, ReplayNext, FinishLoad,
                ReturnHead, ReturnReceipt, Refuse, storeVars
  <2>2. CASE PublishBoundary(c) \/ Settle(c)
    BY <2>2 DEF PublishBoundary, Settle, Publish, PublishFails
  <2>3. CASE Prepare(c) \/ Create(c) \/ Indeterminate(c) \/ Reconcile(c) \/ Retry(c)
    BY <2>3 DEF Prepare, Create, Indeterminate, Reconcile, Retry, storeVars
  <2> QED
    BY <1>1, <2>1, <2>2, <2>3 DEF Proceed
<1>2. ASSUME NEW c \in Fibers, NEW d, Call(c, d) \/ StoreFails(c) \/ SnapshotLands(c)
      PROVE  commits \subseteq commits' /\ snapshots \subseteq snapshots'
  BY <1>2 DEF Call, StoreFails, SnapshotLands, storeVars
<1>3. CASE \/ \E h \in Hosts : Crash(h)
           \/ \E p \in lateCommits : CommitArrives(p)
           \/ \E s \in lateSnapshots : SnapshotArrives(s)
           \/ UNCHANGED vars
  BY <1>3 DEF Crash, CommitArrives, SnapshotArrives, vars
<1> QED
  BY <1>1, <1>2, <1>3 DEF Next

\* A step that stores no commit keeps the store safe if what it publishes is a
\* prefix of the history.
LEMMA StoreKept ==
    ASSUME StoreSafe, UNCHANGED commits, snapshots \subseteq snapshots',
           \A p \in lateCommits' : \E q \in lateCommits : p.commit = q.commit,
           \A s \in snapshots' \cup lateSnapshots' : PrefixOf(commits, s)
    PROVE  StoreSafe'
<1>1. \A x : Sound(commits, snapshots, x) => Sound(commits, snapshots', x)
  BY SoundGrows
<1> QED
  BY <1>1 DEF StoreSafe

\* The conditional creation of a sound record keeps the store safe.
LEMMA StoreExtended ==
    ASSUME StoreSafe, NEW x, SlotFree(Slot(x)), Sound(commits, snapshots, x),
           commits' = commits \cup {x}, UNCHANGED <<snapshots, lateSnapshots>>,
           lateCommits' \subseteq lateCommits
    PROVE  StoreSafe'
<1>1. \A y : Sound(commits, snapshots, y) => Sound(commits', snapshots', y)
  BY SoundGrows
<1>2. \A y, z \in commits' : Slot(y) = Slot(z) => y = z
  BY DEF StoreSafe, SlotFree
<1>3. \A s \in snapshots' \cup lateSnapshots' : PrefixOf(commits', s)
  BY DEF StoreSafe, PrefixOf
<1> QED
  BY <1>1, <1>2, <1>3 DEF StoreSafe

LEMMA CachesKept ==
    ASSUME CachesSafe, commits \subseteq commits', snapshots \subseteq snapshots',
           \A h \in Hosts : \/ verified'[h] = verified[h]
                           \/ Clean(commits', snapshots', verified'[h]),
           \A h \in Hosts : \/ verifiedSnapshot'[h] = verifiedSnapshot[h]
                           \/ verifiedSnapshot'[h] \in snapshots' \cup {NoLog}
    PROVE  CachesSafe'
<1>1. \A l : Clean(commits, snapshots, l) => Clean(commits', snapshots', l)
  BY CleanGrows
<1> QED
  BY <1>1 DEF CachesSafe

\* What Remember puts in the cache of a host.
LEMMA Remembered ==
    ASSUME StoreTypes, NEW h \in Hosts, NEW l, Remember(h, l)
    PROVE  \A g \in Hosts : verified'[g] = verified[g] \/ verified'[g] = l
BY DEF Remember, StoreTypes

\* A frame that does not change stays safe.
LEMMA FrameKept ==
    ASSUME NEW c \in Fibers, FrameSafe(c),
           commits \subseteq commits', snapshots \subseteq snapshots',
           known'[c] = known[c], loaded'[c] = loaded[c], snapshot'[c] = snapshot[c],
           pc'[c] = pc[c], result'[c] = result[c], command'[c] = command[c]
    PROVE  FrameSafe(c)'
<1>1. \A l : Clean(commits, snapshots, l) => Clean(commits', snapshots', l)
  BY CleanGrows
<1> QED
  BY <1>1 DEF FrameSafe, Acknowledged, HasReceipt

\* Only c's frame changes, so only c's frame is looked at.
LEMMA FramesKept ==
    ASSUME FramesSafe, NEW c \in Fibers, FrameSafe(c)',
           commits \subseteq commits', snapshots \subseteq snapshots',
           \A i \in Fibers \ {c} :
              /\ known'[i] = known[i] /\ loaded'[i] = loaded[i] /\ snapshot'[i] = snapshot[i]
              /\ pc'[i] = pc[i] /\ result'[i] = result[i] /\ command'[i] = command[i]
    PROVE  FramesSafe'
<1>1. \A i \in Fibers \ {c} : FrameSafe(i)'
  BY FrameKept DEF FramesSafe
<1> QED
  BY <1>1 DEF FramesSafe

\* Returning is safe when a positive answer is backed by a commit.
LEMMA ReturnIsSafe ==
    ASSUME FrameTypes, FramesSafe, NEW c \in Fibers, NEW o, NEW r, Return(c, o, r),
           commits \subseteq commits', snapshots \subseteq snapshots',
           o = "committed" =>
             \E x \in commits : x.entry = [id |-> command[c].id, input |-> command[c].input,
                                          receipt |-> r]
    PROVE  FramesSafe'
<1>1. \A i \in Fibers \ {c} :
         /\ known'[i] = known[i] /\ loaded'[i] = loaded[i] /\ snapshot'[i] = snapshot[i]
         /\ pc'[i] = pc[i] /\ result'[i] = result[i] /\ command'[i] = command[i]
  BY DEF Return, EndLoad, Go, FrameTypes
<1>2. /\ known'[c] = EmptyLoaded /\ loaded'[c] = EmptyLoaded /\ snapshot'[c] = NoLog
      /\ pc'[c] = "idle" /\ command'[c] = command[c]
      /\ result'[c] = [outcome |-> o, receipt |-> r]
  BY DEF Return, EndLoad, Go, FrameTypes
<1>3. Acknowledged(c)'
  BY <1>2 DEF Acknowledged
<1>4. FrameSafe(c)'
  BY <1>2, <1>3, EmptyIsClean DEF FrameSafe
<1> QED
  BY <1>1, <1>4, FramesKept

\* A call that is not between its PUT and its read changes nothing about the
\* PUTs in flight.
LEMMA AttemptsKept ==
    ASSUME Attempts, commits \subseteq commits', lateCommits' \subseteq lateCommits,
           \A i \in Fibers : pc[i] = "reconcile" =>
               pc'[i] = "reconcile" /\ loaded'[i] = loaded[i]
    PROVE  Attempts'
BY DEF Attempts, SlotFree

LEMMA AttemptsKeptBy ==
    ASSUME Attempts, FrameTypes, NEW c \in Fibers, pc[c] # "reconcile",
           commits \subseteq commits', lateCommits' \subseteq lateCommits,
           \A i \in Fibers \ {c} : pc'[i] = pc[i] /\ loaded'[i] = loaded[i]
    PROVE  Attempts'
BY AttemptsKept

\* c's frame is the only one that the two variables below change in.
LEMMA OthersKept ==
    ASSUME FrameTypes, NEW c \in Fibers, NEW o, NEW r, Return(c, o, r)
    PROVE  \A i \in Fibers \ {c} : pc'[i] = pc[i] /\ loaded'[i] = loaded[i]
BY DEF Return, Go, FrameTypes

-----------------------------------------------------------------------------
(* Init, and the steps of a load.                                          *)

LEMMA InitSafe == Init => Safe
<1> SUFFICES ASSUME Init PROVE Safe
  OBVIOUS
<1>1. StoreSafe
  BY DEF Init, StoreSafe
<1>2. CachesSafe
  BY EmptyIsClean DEF Init, CachesSafe
<1>3. FramesSafe
  BY EmptyIsClean DEF Init, FramesSafe, FrameSafe, Acknowledged, NoResult
<1>4. Attempts
  BY DEF Init, Attempts
<1> QED
  BY <1>1, <1>2, <1>3, <1>4 DEF Safe

LEMMA QuietStore ==
    ASSUME StoreSafe, UNCHANGED storeVars
    PROVE  /\ StoreSafe'
           /\ commits \subseteq commits' /\ snapshots \subseteq snapshots'
           /\ UNCHANGED <<commits, snapshots, lateCommits>>
BY StoreKept DEF StoreSafe, storeVars

\* A step inside c's frame that touches no object of the store.
LEMMA LocalStep ==
    ASSUME TypeInv, Safe, NEW c \in Fibers, UNCHANGED storeVars, CachesSafe',
           FrameSafe(c)', pc[c] # "reconcile",
           \A i \in Fibers \ {c} :
              /\ known'[i] = known[i] /\ loaded'[i] = loaded[i] /\ snapshot'[i] = snapshot[i]
              /\ pc'[i] = pc[i] /\ result'[i] = result[i] /\ command'[i] = command[i]
    PROVE  Safe'
<1>1. FrameTypes
  BY TypeParts DEF Frames
<1> QED
  BY <1>1, QuietStore, FramesKept, AttemptsKeptBy DEF Safe

\* A call that ends without touching the store.
LEMMA LocalReturn ==
    ASSUME TypeInv, Safe, NEW c \in Fibers, NEW o, NEW r, Return(c, o, r),
           UNCHANGED storeVars, CachesSafe', pc[c] # "reconcile",
           o = "committed" =>
             \E x \in commits : x.entry = [id |-> command[c].id, input |-> command[c].input,
                                          receipt |-> r]
    PROVE  Safe'
<1>1. FrameTypes
  BY TypeParts DEF Frames
<1>2. StoreSafe' /\ commits \subseteq commits' /\ snapshots \subseteq snapshots'
      /\ UNCHANGED lateCommits
  BY QuietStore DEF Safe
<1>3. FramesSafe'
  BY <1>1, <1>2, ReturnIsSafe DEF Safe
<1>4. Attempts'
  BY <1>1, <1>2, OthersKept, AttemptsKeptBy DEF Safe
<1> QED
  BY <1>2, <1>3, <1>4 DEF Safe

LEMMA QuietCaches ==
    ASSUME CachesSafe, UNCHANGED hostVars,
           commits \subseteq commits', snapshots \subseteq snapshots'
    PROVE  CachesSafe'
BY CachesKept DEF hostVars

LEMMA BeginLoadIsSafe ==
    ASSUME TypeInv, Safe, NEW c \in Fibers, BeginLoad(c), UNCHANGED <<storeVars, hostVars>>,
           UNCHANGED loaded, pc[c] # "reconcile",
           \A i \in Fibers \ {c} : result'[i] = result[i] /\ command'[i] = command[i],
           Acknowledged(c)'
    PROVE  Safe'
<1>1. FrameTypes
  BY TypeParts DEF Frames
<1>2. CachesSafe' /\ UNCHANGED <<commits, snapshots>>
  BY QuietCaches, QuietStore DEF Safe
<1>3. /\ known'[c] = verified[HostOf[c]] /\ pc'[c] = "list"
      /\ HostOf[c] \in Hosts
      /\ \A i \in Fibers \ {c} : known'[i] = known[i] /\ pc'[i] = pc[i]
  BY <1>1, ConstantsAssumption DEF BeginLoad, Go, FrameTypes
<1>4. FrameSafe(c)'
  BY <1>2, <1>3 DEF BeginLoad, FrameSafe, FramesSafe, CachesSafe, Safe
<1> QED
  BY <1>2, <1>3, <1>4, LocalStep DEF BeginLoad

LEMMA CallIsSafe ==
    ASSUME TypeInv, Safe, NEW c \in Fibers, NEW d, Call(c, d)
    PROVE  Safe'
<1>1. FrameTypes
  BY TypeParts DEF Frames
<1>2. Acknowledged(c)'
  BY <1>1 DEF Call, Acknowledged, NoResult, FrameTypes
<1>3. \A i \in Fibers \ {c} : result'[i] = result[i] /\ command'[i] = command[i]
  BY <1>1 DEF Call, FrameTypes
<1> QED
  BY <1>2, <1>3, BeginLoadIsSafe DEF Call

LEMMA RetryIsSafe ==
    ASSUME TypeInv, Safe, NEW c \in Fibers, Retry(c)
    PROVE  Safe'
<1>1. Acknowledged(c)'
  BY QuietStore DEF Retry, Acknowledged, Safe, FramesSafe, FrameSafe
<1> QED
  BY <1>1, BeginLoadIsSafe DEF Retry

\* A step of c's frame that only moves its program counter, or its loaded head.
LEMMA FrameMoves ==
    ASSUME TypeInv, Safe, NEW c \in Fibers, NEW where, Go(c, where),
           where \notin {"prepared", "reconcile"},
           UNCHANGED <<commits, command, result>>, snapshots \subseteq snapshots',
           Clean(commits', snapshots', known'[c]),
           Clean(commits', snapshots', loaded'[c]),
           snapshot'[c] \in snapshots' \cup {NoLog}
    PROVE  /\ FrameSafe(c)'
           /\ \A i \in Fibers \ {c} : /\ pc'[i] = pc[i]
                                      /\ result'[i] = result[i] /\ command'[i] = command[i]
<1>1. FrameTypes
  BY TypeParts DEF Frames
<1>2. pc'[c] = where /\ \A i \in Fibers \ {c} : pc'[i] = pc[i]
  BY <1>1 DEF Go, FrameTypes
<1>3. Acknowledged(c)'
  BY DEF Acknowledged, Safe, FramesSafe, FrameSafe
<1> QED
  BY <1>2, <1>3 DEF FrameSafe

LEMMA ListCommitsIsSafe ==
    ASSUME TypeInv, Safe, NEW c \in Fibers, ListCommits(c)
    PROVE  Safe'
<1>1. CachesSafe' /\ UNCHANGED storeVars /\ pc[c] # "reconcile"
  BY QuietCaches, QuietStore DEF ListCommits, Safe
<1>2. CASE Return(c, "corruption", 0)
  BY <1>1, <1>2, LocalReturn
<1>3. CASE Go(c, "listSnapshots")
           /\ UNCHANGED <<command, known, snapshot, loaded, conflicts, result>>
  <2>1. FrameSafe(c)' /\ \A i \in Fibers \ {c} :
             pc'[i] = pc[i] /\ result'[i] = result[i] /\ command'[i] = command[i]
    BY <1>1, <1>3, QuietStore, FrameMoves DEF Safe, FramesSafe, FrameSafe
  <2> QED
    BY <1>1, <1>3, <2>1, LocalStep
<1> QED
  BY <1>2, <1>3 DEF ListCommits

\* The listing shows published snapshots, the host's own among them.
LEMMA CandidatesPublished ==
    ASSUME TypeInv, Safe, NEW c \in Fibers
    PROVE  SnapshotCandidates(c) \subseteq snapshots
<1>1. HostOf[c] \in Hosts
  BY ConstantsAssumption
<1>2. SnapshotSeed(c) \in snapshots \cup {NoLog}
  BY <1>1 DEF SnapshotSeed, Safe, CachesSafe, FramesSafe, FrameSafe, Clean
<1> QED
  BY <1>2 DEF SnapshotCandidates

LEMMA ListSnapshotsIsSafe ==
    ASSUME TypeInv, Safe, NEW c \in Fibers, ListSnapshots(c)
    PROVE  Safe'
<1>1. CachesSafe' /\ UNCHANGED storeVars /\ pc[c] # "reconcile"
  BY QuietCaches, QuietStore DEF ListSnapshots, Safe
<1>2. CASE Return(c, "corruption", 0)
  BY <1>1, <1>2, LocalReturn
<1>3. ASSUME NEW s \in snapshots \cup {NoLog}, Go(c, "recover"),
             snapshot' = [snapshot EXCEPT ![c] = s],
             UNCHANGED <<command, known, latest, loaded, conflicts, result>>
      PROVE  Safe'
  <2>1. snapshot'[c] = s /\ \A i \in Fibers \ {c} : snapshot'[i] = snapshot[i]
    BY <1>3, TypeParts DEF Frames, FrameTypes
  <2>2. FrameSafe(c)' /\ \A i \in Fibers \ {c} :
             pc'[i] = pc[i] /\ result'[i] = result[i] /\ command'[i] = command[i]
    BY <1>1, <1>3, <2>1, QuietStore, FrameMoves DEF Safe, FramesSafe, FrameSafe
  <2> QED
    BY <1>1, <1>3, <2>1, <2>2, LocalStep
<1> QED
  BY <1>2, <1>3, CandidatesPublished DEF ListSnapshots

LEMMA RecoverIsSafe ==
    ASSUME TypeInv, Safe, NEW c \in Fibers, Recover(c)
    PROVE  Safe'
<1>1. UNCHANGED storeVars /\ pc[c] # "reconcile" /\ UNCHANGED <<commits, snapshots>>
  BY QuietStore DEF Recover, Safe
<1>2. CASE Return(c, "corruption", 0) /\ UNCHANGED hostVars
  BY <1>1, <1>2, LocalReturn, QuietCaches DEF Safe
<1>3. CASE /\ Go(c, "replay")
           /\ loaded' = [loaded EXCEPT ![c] = IF ReusesVerified(c) THEN known[c]
                                              ELSE SnapshotBase(c)]
           /\ verifiedSnapshot' =
                IF ReadsSnapshot(c)
                THEN [verifiedSnapshot EXCEPT ![HostOf[c]] = snapshot[c]]
                ELSE verifiedSnapshot
           /\ UNCHANGED <<verified, command, loadVars, conflicts, result>>
  <2>1. /\ StoreTypes /\ FrameTypes /\ HostOf[c] \in Hosts
        /\ snapshot[c] \in snapshots \cup {NoLog} /\ Clean(commits, snapshots, known[c])
        /\ \A s \in snapshots : PrefixOf(commits, s)
    BY TypeParts, ConstantsAssumption DEF Frames, Safe, FramesSafe, FrameSafe, StoreSafe
  <2>2. Clean(commits, snapshots, SnapshotBase(c))
    <3>1. CASE ReadsSnapshot(c)
      BY <2>1, <3>1, SnapshotIsClean DEF SnapshotBase, ReadsSnapshot, StoreTypes
    <3>2. CASE ~ReadsSnapshot(c)
      BY <3>2, EmptyIsClean DEF SnapshotBase
    <3> QED
      BY <3>1, <3>2
  <2>3. /\ Clean(commits, snapshots, loaded'[c])
        /\ \A i \in Fibers \ {c} : loaded'[i] = loaded[i]
    BY <1>3, <2>1, <2>2 DEF FrameTypes
  <2>4. \A h \in Hosts : \/ verifiedSnapshot'[h] = verifiedSnapshot[h]
                        \/ verifiedSnapshot'[h] \in snapshots \cup {NoLog}
    BY <1>3, <2>1 DEF StoreTypes
  <2>5. CachesSafe'
    BY <1>1, <1>3, <2>4, CachesKept DEF Safe
  <2>6. FrameSafe(c)' /\ \A i \in Fibers \ {c} :
             pc'[i] = pc[i] /\ result'[i] = result[i] /\ command'[i] = command[i]
    BY <1>1, <1>3, <2>1, <2>3, FrameMoves DEF loadVars
  <2> QED
    BY <1>1, <1>3, <2>3, <2>5, <2>6, LocalStep DEF loadVars
<1> QED
  BY <1>2, <1>3 DEF Recover

LEMMA ReplayNextIsSafe ==
    ASSUME TypeInv, Safe, NEW c \in Fibers, ReplayNext(c)
    PROVE  Safe'
<1>1. CachesSafe' /\ UNCHANGED storeVars /\ pc[c] = "replay" /\ UNCHANGED <<commits, snapshots>>
  BY QuietCaches, QuietStore DEF ReplayNext, Replaying, Safe
<1>2. CASE Return(c, "limit", 0) \/ Return(c, "corruption", 0)
  BY <1>1, <1>2, LocalReturn
<1>3. ASSUME NEW x \in commits, Extends(x, loaded[c]),
             loaded' = [loaded EXCEPT ![c] = Advance(loaded[c], x)],
             UNCHANGED <<pc, command, loadVars, conflicts, result>>
      PROVE  Safe'
  <2>1. StoreTypes /\ FrameTypes /\ FrameSafe(c)
    BY TypeParts DEF Frames, Safe, FramesSafe
  <2>2. Clean(commits, snapshots, Advance(loaded[c], x))
    BY <1>3, <2>1, AdvanceIsClean DEF StoreTypes, FrameTypes, FrameSafe, Extends
  <2>3. /\ loaded'[c] = Advance(loaded[c], x)
        /\ \A i \in Fibers \ {c} : loaded'[i] = loaded[i]
    BY <1>3, <2>1 DEF FrameTypes
  <2>4. FrameSafe(c)'
    BY <1>1, <1>3, <2>1, <2>2, <2>3 DEF FrameSafe, Acknowledged, loadVars
  <2> QED
    BY <1>1, <1>3, <2>3, <2>4, LocalStep DEF loadVars
<1> QED
  BY <1>2, <1>3 DEF ReplayNext

LEMMA FinishLoadIsSafe ==
    ASSUME TypeInv, Safe, NEW c \in Fibers, FinishLoad(c)
    PROVE  Safe'
<1>1. /\ UNCHANGED storeVars /\ pc[c] = "replay" /\ UNCHANGED <<commits, snapshots>>
      /\ UNCHANGED <<verifiedSnapshot, command, loaded, conflicts, result>>
      /\ Go(c, "loaded") /\ EndLoad(c) /\ Remember(HostOf[c], loaded[c])
  BY QuietStore DEF FinishLoad, Safe
<1>2. StoreTypes /\ FrameTypes /\ FrameSafe(c) /\ HostOf[c] \in Hosts
  BY TypeParts, ConstantsAssumption DEF Frames, Safe, FramesSafe
<1>3. CachesSafe'
  BY <1>1, <1>2, Remembered, CachesKept DEF Safe, FrameSafe
<1>4. /\ known'[c] = EmptyLoaded /\ snapshot'[c] = NoLog
      /\ \A i \in Fibers \ {c} : known'[i] = known[i] /\ snapshot'[i] = snapshot[i]
  BY <1>1, <1>2 DEF EndLoad, FrameTypes
<1>5. FrameSafe(c)' /\ \A i \in Fibers \ {c} :
           pc'[i] = pc[i] /\ result'[i] = result[i] /\ command'[i] = command[i]
  BY <1>1, <1>2, <1>4, EmptyIsClean, FrameMoves DEF FrameSafe
<1> QED
  BY <1>1, <1>3, <1>4, <1>5, LocalStep

LEMMA StoreFailsIsSafe ==
    ASSUME TypeInv, Safe, NEW c \in Fibers, StoreFails(c)
    PROVE  Safe'
<1>1. CachesSafe' /\ UNCHANGED storeVars /\ pc[c] # "reconcile"
  BY QuietCaches, QuietStore DEF StoreFails, Safe
<1> QED
  BY <1>1, LocalReturn DEF StoreFails

-----------------------------------------------------------------------------
(* The steps of a commit.                                                  *)

LEMMA ReturnHeadIsSafe ==
    ASSUME TypeInv, Safe, NEW c \in Fibers, ReturnHead(c)
    PROVE  Safe'
<1>1. CachesSafe' /\ UNCHANGED storeVars /\ pc[c] # "reconcile"
  BY QuietCaches, QuietStore DEF ReturnHead, Safe
<1> QED
  <2> DEFINE r == Len(loaded[c].log)
  <2>1. Return(c, "read", r)
    BY DEF ReturnHead
  <2> HIDE DEF r
  <2> QED
    BY <1>1, <2>1, LocalReturn

LEMMA RefuseIsSafe ==
    ASSUME TypeInv, Safe, NEW c \in Fibers, Refuse(c)
    PROVE  Safe'
<1>1. CachesSafe' /\ UNCHANGED storeVars /\ pc[c] # "reconcile"
  BY QuietCaches, QuietStore DEF Refuse, Safe
<1> QED
  BY <1>1, LocalReturn DEF Refuse

\* An entry of a clean head is an entry of a commit.
LEMMA EntryIsCommitted ==
    ASSUME NEW C, NEW S, NEW l, Clean(C, S, l), NEW k \in DOMAIN l.log
    PROVE  \E x \in C : x.entry = l.log[k]
BY DEF Clean, PrefixOf

LEMMA ReturnReceiptIsSafe ==
    ASSUME TypeInv, Safe, NEW c \in Fibers, ReturnReceipt(c)
    PROVE  Safe'
<1>1. /\ CachesSafe' /\ UNCHANGED storeVars /\ pc[c] # "reconcile"
      /\ FrameTypes /\ FrameSafe(c)
  BY QuietCaches, QuietStore, TypeParts DEF ReturnReceipt, Safe, Frames, FramesSafe
<1>2. loaded[c] \in Loaded /\ command[c].id \in Ids
  BY <1>1, ConstantsAssumption DEF FrameTypes, ReturnReceipt
<1> DEFINE prior == ReceiptOf(loaded[c], Mine(c))
<1>3. PICK k \in DOMAIN loaded[c].log : prior = loaded[c].log[k] /\ prior.id = command[c].id
  BY <1>2, ReceiptOfIsEntry DEF ReturnReceipt, Mine
<1>4. prior \in Entry
  BY <1>2, ReceiptOfIsEntry DEF ReturnReceipt, Mine
<1>5. \E x \in commits : x.entry = prior
  BY <1>1, <1>3, EntryIsCommitted DEF FrameSafe
<1>6. \/ prior.input = command[c].input /\ Return(c, "committed", prior.receipt)
      \/ Return(c, "input-conflict", 0)
  BY DEF ReturnReceipt, Answer
<1> HIDE DEF prior
<1>7. prior = [id |-> prior.id, input |-> prior.input, receipt |-> prior.receipt]
  BY <1>4 DEF Entry
<1>8. CASE prior.input = command[c].input /\ Return(c, "committed", prior.receipt)
  <2>1. \E x \in commits : x.entry = [id |-> command[c].id, input |-> command[c].input,
                                      receipt |-> prior.receipt]
    BY <1>3, <1>5, <1>7, <1>8
  <2> QED
    BY <1>1, <1>8, <2>1, LocalReturn
<1>9. CASE Return(c, "input-conflict", 0)
  BY <1>1, <1>9, LocalReturn
<1> QED
  BY <1>6, <1>8, <1>9

LEMMA PrepareIsSafe ==
    ASSUME TypeInv, Safe, NEW c \in Fibers, Prepare(c)
    PROVE  Safe'
<1>1. /\ FrameTypes /\ FrameSafe(c) /\ pc[c] = "loaded"
      /\ UNCHANGED <<commits, snapshots, lateCommits, lateSnapshots, hostVars,
                     command, known, snapshot, loaded, result>>
      /\ ~HasReceipt(loaded[c], command[c].id)
      /\ Go(c, "prepared")
  BY TypeParts DEF Prepare, Frames, Safe, FramesSafe, loadVars, Mine
<1>2. pc'[c] = "prepared" /\ \A i \in Fibers \ {c} : pc'[i] = pc[i]
  BY <1>1 DEF Go, FrameTypes
<1>3. StoreSafe' /\ CachesSafe'
  BY <1>1, StoreKept, QuietCaches DEF Safe, StoreSafe
<1>4. FrameSafe(c)'
  BY <1>1, <1>2 DEF FrameSafe, Acknowledged, HasReceipt
<1>5. FramesSafe'
  BY <1>1, <1>2, <1>4, FramesKept DEF Safe
<1>6. Attempts'
  BY <1>1, <1>2, AttemptsKeptBy DEF Safe
<1> QED
  BY <1>3, <1>5, <1>6 DEF Safe

\* Publishing the loaded head, or failing to, keeps the store and caches safe.
LEMMA PublicationIsSafe ==
    ASSUME TypeInv, Safe, NEW c \in Fibers, Publish(c) \/ PublishFails(c),
           UNCHANGED <<commits, lateCommits>>
    PROVE  /\ StoreSafe'
           /\ commits \subseteq commits' /\ snapshots \subseteq snapshots'
           /\ \A h \in Hosts : \/ verifiedSnapshot'[h] = verifiedSnapshot[h]
                               \/ verifiedSnapshot'[h] \in snapshots' \cup {NoLog}
<1>1. PrefixOf(commits, loaded[c].log) /\ StoreTypes
  BY TypeParts DEF Safe, FramesSafe, FrameSafe, Clean
<1>2. snapshots \subseteq snapshots' /\
      \A s \in snapshots' \cup lateSnapshots' :
          s \in snapshots \cup lateSnapshots \/ s = loaded[c].log
  BY DEF Publish, PublishFails
<1>3. StoreSafe'
  BY <1>1, <1>2, StoreKept DEF Safe, StoreSafe
<1>4. \A h \in Hosts : \/ verifiedSnapshot'[h] = verifiedSnapshot[h]
                      \/ verifiedSnapshot'[h] \in snapshots' \cup {NoLog}
  BY <1>1 DEF Publish, PublishFails, StoreTypes
<1> QED
  BY <1>2, <1>3, <1>4

LEMMA PublishBoundaryIsSafe ==
    ASSUME TypeInv, Safe, NEW c \in Fibers, PublishBoundary(c)
    PROVE  Safe'
<1>1. /\ FrameTypes /\ FrameSafe(c) /\ pc[c] = "prepared"
      /\ UNCHANGED <<commits, lateCommits, verified>>
  BY TypeParts DEF PublishBoundary, BoundaryDue, Frames, Safe, FramesSafe
<1>2. /\ StoreSafe' /\ commits \subseteq commits' /\ snapshots \subseteq snapshots'
      /\ \A h \in Hosts : \/ verifiedSnapshot'[h] = verifiedSnapshot[h]
                          \/ verifiedSnapshot'[h] \in snapshots' \cup {NoLog}
  BY <1>1, PublicationIsSafe DEF PublishBoundary
<1>3. CachesSafe'
  BY <1>1, <1>2, CachesKept DEF Safe
<1>4. CASE Return(c, "transport", 0)
  <2>1. FramesSafe'
    BY <1>1, <1>2, <1>4, ReturnIsSafe DEF Safe
  <2>2. Attempts'
    BY <1>1, <1>2, <1>4, OthersKept, AttemptsKeptBy DEF Safe
  <2> QED
    BY <1>2, <1>3, <2>1, <2>2 DEF Safe
<1>5. CASE /\ Publish(c)
           /\ loaded' = [loaded EXCEPT ![c] = Published(loaded[c])]
           /\ UNCHANGED <<pc, command, loadVars, conflicts, result>>
  <2>1. /\ loaded'[c] = Published(loaded[c])
        /\ \A i \in Fibers \ {c} : loaded'[i] = loaded[i]
        /\ loaded[c] \in Loaded
    BY <1>1, <1>5 DEF FrameTypes
  <2>2. snapshots' = snapshots \cup {loaded[c].log}
    BY <1>5 DEF Publish
  <2>3. Clean(commits, snapshots', loaded'[c])
    BY <1>1, <2>1, <2>2, PublishedIsClean DEF FrameSafe
  <2>4. Clean(commits, snapshots', known[c])
    BY <1>1, <1>2, CleanGrows DEF FrameSafe
  <2>5. loaded'[c].log = loaded[c].log
    BY <2>1, PublishedIsLoaded
  <2>6. FrameSafe(c)'
    BY <1>1, <1>2, <1>5, <2>3, <2>4, <2>5
    DEF FrameSafe, Acknowledged, HasReceipt, loadVars
  <2>7. FramesSafe'
    BY <1>2, <1>5, <2>1, <2>6, FramesKept DEF Safe, loadVars
  <2>8. Attempts'
    BY <1>1, <1>2, <1>5, <2>1, AttemptsKeptBy DEF Safe
  <2> QED
    BY <1>2, <1>3, <2>7, <2>8 DEF Safe
<1> QED
  BY <1>4, <1>5 DEF PublishBoundary

\* The record a prepared call writes is sound: its boundary is published.
LEMMA TransitionIsSound ==
    ASSUME TypeInv, Safe, NEW c \in Fibers, pc[c] = "prepared", ~RecordsDue(c)
    PROVE  /\ Transition(c) \in Commit
           /\ Transition(c).parent = loaded[c].log
           /\ Slot(Transition(c)) = Len(loaded[c].log) + 1
           /\ Sound(commits, snapshots, Transition(c))
<1>1. FrameSafe(c) /\ loaded[c] \in Loaded /\ StoreTypes
  BY TypeParts DEF Safe, FramesSafe, Frames, FrameTypes
<1>2. Transition(c) \in Commit
  BY TransitionIsCommit DEF TypeInv
<1>3. Transition(c).parent = loaded[c].log /\ Transition(c).entry.id = command[c].id
  BY DEF Transition, Mine
<1>4. Slot(Transition(c)) = Len(loaded[c].log) + 1
  BY <1>3 DEF Slot
<1>5. PICK base \in snapshots \cup {NoLog} :
          Len(loaded[c].log) <= Len(base) + loaded[c].replayRecords
  BY <1>1 DEF FrameSafe, Clean
<1>6. /\ Len(base) \in Nat /\ Len(loaded[c].log) \in Nat
      /\ loaded[c].replayRecords \in Nat /\ SnapshotEvery \in Nat
  <2>1. base \in Log /\ loaded[c].log \in Log
    BY <1>1, EmptyIsLoaded DEF StoreTypes, Loaded
  <2> QED
    BY <1>1, <2>1, ConstantsAssumption DEF Loaded, Log
<1>7. Slot(Transition(c)) <= Len(base) + SnapshotEvery
  BY <1>4, <1>5, <1>6 DEF RecordsDue
<1>8. Fresh(Transition(c))
  BY <1>1, <1>3 DEF Fresh, FrameSafe, HasReceipt
<1>9. PrefixOf(commits, Transition(c).parent)
  BY <1>1, <1>3 DEF FrameSafe, Clean
<1> QED
  BY <1>2, <1>3, <1>4, <1>7, <1>8, <1>9 DEF Sound, Recoverable

\* The slot is created, whether or not the PUT is acknowledged.
LEMMA CommitIsSafe ==
    ASSUME TypeInv, Safe, NEW c \in Fibers, pc[c] = "prepared", ~RecordsDue(c),
           NEW x, x = Transition(c), SlotFree(Slot(x)), commits' = commits \cup {x},
           UNCHANGED <<snapshots, lateCommits, lateSnapshots, hostVars, command,
                       known, snapshot, result>>,
           \/ Go(c, "created") /\ loaded' = [loaded EXCEPT ![c] = Advance(loaded[c], x)]
           \/ Go(c, "reconcile") /\ UNCHANGED loaded
    PROVE  Safe'
<1>1. FrameTypes /\ FrameSafe(c) /\ StoreTypes
  BY TypeParts DEF Frames, Safe, FramesSafe
<1>2. x \in Commit /\ x.parent = loaded[c].log /\ Sound(commits, snapshots, x)
  BY TransitionIsSound
<1>3. StoreSafe'
  BY <1>2, StoreExtended DEF Safe
<1>4. CachesSafe'
  BY QuietCaches DEF Safe
<1>5. /\ pc'[c] \in {"created", "reconcile"}
      /\ \A i \in Fibers \ {c} : pc'[i] = pc[i] /\ loaded'[i] = loaded[i]
      /\ \/ pc'[c] = "created" /\ loaded'[c] = Advance(loaded[c], x)
         \/ pc'[c] = "reconcile" /\ loaded'[c] = loaded[c]
  BY <1>1 DEF Go, FrameTypes
<1>6. Clean(commits', snapshots', loaded[c]) /\ Clean(commits', snapshots', known[c])
  BY <1>1, CleanGrows DEF FrameSafe
<1>7. Clean(commits', snapshots', Advance(loaded[c], x))
  <2>1. commits' \subseteq Commit /\ x \in commits' /\ snapshots' \subseteq Log /\ loaded[c] \in Loaded
    BY <1>1, <1>2 DEF StoreTypes, FrameTypes
  <2> QED
    BY <1>2, <1>6, <2>1, AdvanceIsClean
<1>8. Acknowledged(c)'
  BY <1>1 DEF FrameSafe, Acknowledged
<1>9. FrameSafe(c)'
  <2>1. CASE pc'[c] = "created" /\ loaded'[c] = Advance(loaded[c], x)
    BY <1>1, <1>6, <1>7, <1>8, <2>1 DEF FrameSafe
  <2>2. CASE pc'[c] = "reconcile" /\ loaded'[c] = loaded[c]
    <3>1. ~HasReceipt(loaded[c], command[c].id)'
      BY <1>1, <2>2 DEF FrameSafe, HasReceipt
    <3> QED
      BY <1>1, <1>6, <1>8, <2>2, <3>1 DEF FrameSafe
  <2> QED
    BY <1>5, <2>1, <2>2
<1>10. FramesSafe'
  BY <1>5, <1>9, FramesKept DEF Safe
<1>11. Attempts'
  BY <1>1, <1>5, AttemptsKeptBy DEF Safe
<1> QED
  BY <1>3, <1>4, <1>10, <1>11 DEF Safe

\* The PUT fails: it is applied neither now nor, unless it stays in flight,
\* later.
LEMMA LostPutIsSafe ==
    ASSUME TypeInv, Safe, NEW c \in Fibers, pc[c] = "prepared", ~RecordsDue(c),
           Go(c, "reconcile"),
           \/ UNCHANGED lateCommits
           \/ lateCommits' = lateCommits \cup {[commit |-> Transition(c), by |-> c]},
           UNCHANGED <<commits, snapshots, lateSnapshots, hostVars, command,
                       known, snapshot, loaded, result>>
    PROVE  Safe'
<1>1. FrameTypes /\ FrameSafe(c)
  BY TypeParts DEF Frames, Safe, FramesSafe
<1>2. /\ Sound(commits, snapshots, Transition(c))
      /\ Slot(Transition(c)) = Len(loaded[c].log) + 1
  BY TransitionIsSound
<1>3. \A p \in lateCommits' : p \in lateCommits \/ (p.commit = Transition(c) /\ p.by = c)
  OBVIOUS
<1>4. StoreSafe'
  BY <1>2, <1>3 DEF Safe, StoreSafe
<1>5. CachesSafe'
  BY QuietCaches DEF Safe
<1>6. pc'[c] = "reconcile" /\ \A i \in Fibers \ {c} : pc'[i] = pc[i]
  BY <1>1 DEF Go, FrameTypes
<1>7. FrameSafe(c)'
  BY <1>1, <1>6 DEF FrameSafe, Acknowledged, HasReceipt
<1>8. FramesSafe'
  BY <1>6, <1>7, FramesKept DEF Safe
<1>9. Attempts'
  BY <1>2, <1>3, <1>6 DEF Safe, Attempts, SlotFree
<1> QED
  BY <1>4, <1>5, <1>8, <1>9 DEF Safe

LEMMA CreateIsSafe ==
    ASSUME TypeInv, Safe, NEW c \in Fibers, Create(c)
    PROVE  Safe'
<1> DEFINE x == Transition(c)
<1>1. /\ pc[c] = "prepared" /\ ~RecordsDue(c)
      /\ UNCHANGED <<snapshots, lateSnapshots, hostVars, command, known, snapshot, result>>
  BY DEF Create, BoundaryDue, loadVars
<1>2. CASE SlotFree(Slot(x)) /\ commits' = commits \cup {x} /\ UNCHANGED lateCommits
           /\ \/ Go(c, "created") /\ loaded' = [loaded EXCEPT ![c] = Advance(loaded[c], x)]
              \/ Go(c, "reconcile") /\ UNCHANGED loaded
  BY <1>1, <1>2, CommitIsSafe
<1>3. CASE /\ UNCHANGED <<commits, loaded>> /\ Go(c, "reconcile")
           /\ \/ UNCHANGED lateCommits
              \/ lateCommits' = lateCommits \cup {[commit |-> x, by |-> c]}
  BY <1>1, <1>3, LostPutIsSafe
<1> HIDE DEF x
<1> QED
  BY <1>2, <1>3 DEF Create, x

\* A call that stops waiting leaves its PUTs to nobody.
LEMMA OrphansAreSafe ==
    ASSUME TypeInv, Attempts, NEW S, S \subseteq Fibers, UNCHANGED commits,
           lateCommits' = {Abandon(p, S) : p \in lateCommits},
           \A i \in Fibers \ S : pc'[i] = pc[i] /\ loaded'[i] = loaded[i]
    PROVE  Attempts' /\ \A p \in lateCommits' : \E q \in lateCommits : p.commit = q.commit
<1>1. \A q \in lateCommits : q \in LateCommit
  BY TypeParts DEF StoreTypes
<1>2. ASSUME NEW p \in lateCommits'
      PROVE  \E q \in lateCommits :
                 p.commit = q.commit /\ (p.by = Nobody \/ (p.by = q.by /\ q.by \notin S))
  <2>1. PICK q \in lateCommits : p = Abandon(q, S)
    BY <1>2
  <2> QED
    BY <1>1, <2>1, AbandonIsLate
<1>3. Attempts'
  BY <1>2 DEF Attempts, SlotFree
<1> QED
  BY <1>2, <1>3

LEMMA IndeterminateIsSafe ==
    ASSUME TypeInv, Safe, NEW c \in Fibers, Indeterminate(c)
    PROVE  Safe'
<1>1. /\ FrameTypes
      /\ Return(c, "indeterminate", 0)
      /\ lateCommits' = {Abandon(p, {c}) : p \in lateCommits}
      /\ UNCHANGED <<commits, snapshots, lateSnapshots, hostVars>>
  BY TypeParts DEF Indeterminate, Orphan, Frames
<1>2. FramesSafe' /\ CachesSafe'
  BY <1>1, ReturnIsSafe, QuietCaches DEF Safe
<1>3. Attempts' /\ \A p \in lateCommits' : \E q \in lateCommits : p.commit = q.commit
  BY <1>1, OthersKept, OrphansAreSafe DEF Safe
<1>4. StoreSafe'
  BY <1>1, <1>3, StoreKept DEF Safe, StoreSafe
<1> QED
  BY <1>2, <1>3, <1>4 DEF Safe

\* Once c has read the slot of its PUT, that slot is taken.
LEMMA ReadSettlesAttempts ==
    ASSUME Attempts, NEW c \in Fibers, NEW x \in commits, Slot(x) = Len(loaded[c].log) + 1,
           UNCHANGED <<commits, lateCommits>>,
           \A i \in Fibers \ {c} : pc'[i] = pc[i] /\ loaded'[i] = loaded[i]
    PROVE  Attempts'
BY DEF Attempts, SlotFree

LEMMA ReconcileIsSafe ==
    ASSUME TypeInv, Safe, NEW c \in Fibers, Reconcile(c)
    PROVE  Safe'
<1>1. PICK x \in commits :
          /\ Slot(x) = Len(loaded[c].log) + 1
          /\ LET advanced == Advance(loaded[c], x)
             IN \/ Return(c, "corruption", 0) /\ UNCHANGED verified
                \/ /\ Extends(x, loaded[c])
                   /\ Remember(HostOf[c], advanced)
                   /\ \/ Return(c, "input-conflict", 0) \/ Return(c, "contention", 0)
                      \/ /\ Go(c, "found")
                         /\ loaded' = [loaded EXCEPT ![c] = advanced]
                         /\ UNCHANGED <<command, loadVars, conflicts, result>>
                      \/ /\ Go(c, "retry")
                         /\ loaded' = [loaded EXCEPT ![c] = EmptyLoaded]
                         /\ UNCHANGED <<command, loadVars, result>>
  BY DEF Reconcile
<1>2. /\ FrameTypes /\ StoreTypes /\ FrameSafe(c) /\ HostOf[c] \in Hosts
      /\ UNCHANGED storeVars /\ UNCHANGED verifiedSnapshot
      /\ StoreSafe' /\ UNCHANGED <<commits, snapshots, lateCommits>>
  BY TypeParts, QuietStore, ConstantsAssumption DEF Reconcile, Frames, Safe, FramesSafe
<1>3. ASSUME \A i \in Fibers \ {c} : pc'[i] = pc[i] /\ loaded'[i] = loaded[i],
             FramesSafe', CachesSafe'
      PROVE  Safe'
  BY <1>1, <1>2, <1>3, ReadSettlesAttempts DEF Safe
<1>4. ASSUME NEW o \in {"corruption", "input-conflict", "contention"}, Return(c, o, 0),
             CachesSafe'
      PROVE  Safe'
  BY <1>2, <1>3, <1>4, ReturnIsSafe, OthersKept DEF Safe
<1>5. CASE Return(c, "corruption", 0) /\ UNCHANGED verified
  BY <1>2, <1>4, <1>5, QuietCaches DEF Safe, hostVars
<1> DEFINE a == Advance(loaded[c], x)
<1>6. ASSUME Extends(x, loaded[c]), Remember(HostOf[c], a)
      PROVE  CachesSafe' /\ Clean(commits, snapshots, a)
  <2>1. Clean(commits, snapshots, a)
    BY <1>2, <1>6, AdvanceIsClean DEF StoreTypes, FrameTypes, FrameSafe, Extends
  <2> HIDE DEF a
  <2>2. \A h \in Hosts : verified'[h] = verified[h] \/ verified'[h] = a
    BY <1>2, <1>6, Remembered
  <2> QED
    BY <1>2, <2>1, <2>2, CachesKept DEF Safe
<1> HIDE DEF a
<1>7. ASSUME Clean(commits, snapshots, a), CachesSafe', NEW where \in {"found", "retry"},
             Go(c, where), NEW l \in {a, EmptyLoaded}, loaded' = [loaded EXCEPT ![c] = l],
             UNCHANGED <<command, loadVars, result>>
      PROVE  Safe'
  <2>1. loaded'[c] = l /\ \A i \in Fibers \ {c} : loaded'[i] = loaded[i]
    BY <1>2, <1>7 DEF FrameTypes
  <2>2. Clean(commits, snapshots, loaded'[c])
    BY <1>7, <2>1, EmptyIsClean
  <2>3. FrameSafe(c)' /\ \A i \in Fibers \ {c} :
             pc'[i] = pc[i] /\ result'[i] = result[i] /\ command'[i] = command[i]
    BY <1>2, <1>7, <2>2, FrameMoves DEF FrameSafe, loadVars
  <2>4. FramesSafe'
    BY <1>2, <1>7, <2>1, <2>3, FramesKept DEF Safe, loadVars
  <2> QED
    BY <1>3, <1>7, <2>1, <2>3, <2>4
<1>8. CASE /\ Extends(x, loaded[c]) /\ Remember(HostOf[c], a)
           /\ Return(c, "input-conflict", 0) \/ Return(c, "contention", 0)
  BY <1>4, <1>6, <1>8
<1>9. CASE /\ Extends(x, loaded[c]) /\ Remember(HostOf[c], a)
           /\ Go(c, "found")
           /\ loaded' = [loaded EXCEPT ![c] = a]
           /\ UNCHANGED <<command, loadVars, conflicts, result>>
  BY <1>6, <1>7, <1>9
<1>10. CASE /\ Extends(x, loaded[c]) /\ Remember(HostOf[c], a)
            /\ Go(c, "retry")
            /\ loaded' = [loaded EXCEPT ![c] = EmptyLoaded]
            /\ UNCHANGED <<command, loadVars, result>>
  BY <1>6, <1>7, <1>10
<1> QED
  BY <1>1, <1>5, <1>8, <1>9, <1>10 DEF a

LEMMA SettleIsSafe ==
    ASSUME TypeInv, Safe, NEW c \in Fibers, Settle(c)
    PROVE  Safe'
<1>1. /\ FrameTypes /\ StoreTypes /\ FrameSafe(c) /\ HostOf[c] \in Hosts
      /\ loaded[c] \in Loaded
      /\ pc[c] \in {"created", "found"} /\ UNCHANGED <<commits, lateCommits>>
  BY TypeParts, ConstantsAssumption DEF Settle, Frames, FrameTypes, Safe, FramesSafe
<1>2. /\ StoreSafe' /\ commits \subseteq commits' /\ snapshots \subseteq snapshots'
      /\ \A h \in Hosts : \/ verifiedSnapshot'[h] = verifiedSnapshot[h]
                          \/ verifiedSnapshot'[h] \in snapshots' \cup {NoLog}
  <2>1. CASE Publish(c) \/ PublishFails(c)
    BY <1>1, <2>1, PublicationIsSafe
  <2>2. CASE UNCHANGED <<snapshots, lateSnapshots, verifiedSnapshot>>
    BY <1>1, <2>2, StoreKept DEF Safe, StoreSafe
  <2> QED
    BY <2>1, <2>2 DEF Settle
<1>3. \A h \in Hosts : verified'[h] = verified[h] \/ verified'[h] = loaded[c]
  BY <1>1, Remembered DEF Settle
<1>4. CachesSafe'
  <2>1. Clean(commits', snapshots', loaded[c])
    BY <1>1, <1>2, CleanGrows DEF FrameSafe
  <2> QED
    BY <1>2, <1>3, <2>1, CachesKept DEF Safe
<1> DEFINE e == LastEntry(loaded[c])
<1>5. /\ e.id = command[c].id /\ e.input = command[c].input
      /\ Return(c, "committed", e.receipt)
  BY <1>1 DEF Settle, TypeInv, Settled
<1>6. e \in Entry /\ \E x \in commits : x.entry = e
  <2>1. loaded[c].log # << >> /\ loaded[c].log \in Seq(Entry)
    BY <1>1 DEF TypeInv, Settled, NoLog, Loaded, Log
  <2>2. Len(loaded[c].log) \in DOMAIN loaded[c].log
    BY <2>1
  <2>3. e \in Entry
    BY <2>1, <2>2 DEF LastEntry
  <2> QED
    BY <1>1, <2>2, <2>3, EntryIsCommitted DEF LastEntry, FrameSafe
<1> HIDE DEF e
<1>7. \E x \in commits : x.entry = [id |-> command[c].id, input |-> command[c].input,
                                   receipt |-> e.receipt]
  BY <1>5, <1>6 DEF Entry
<1>8. FramesSafe'
  BY <1>1, <1>2, <1>5, <1>7, ReturnIsSafe DEF Safe
<1>9. Attempts'
  BY <1>1, <1>2, <1>5, OthersKept, AttemptsKeptBy DEF Safe
<1> QED
  BY <1>2, <1>4, <1>8, <1>9 DEF Safe

-----------------------------------------------------------------------------
(* The environment.                                                        *)

\* A step that changes the store and nothing else.
LEMMA OnlyStoreMoves ==
    ASSUME TypeInv, Safe, StoreSafe', commits \subseteq commits', snapshots \subseteq snapshots',
           lateCommits' \subseteq lateCommits,
           UNCHANGED <<hostVars, pc, command, loadVars, loaded, result>>
    PROVE  Safe'
<1>1. CachesSafe'
  BY QuietCaches DEF Safe
<1>2. FramesSafe'
  BY FrameKept DEF Safe, FramesSafe, loadVars
<1>3. Attempts'
  BY AttemptsKept DEF Safe
<1> QED
  BY <1>1, <1>2, <1>3 DEF Safe

LEMMA SnapshotLandsIsSafe ==
    ASSUME TypeInv, Safe, NEW c \in Fibers, SnapshotLands(c)
    PROVE  Safe'
<1>1. PrefixOf(commits, loaded[c].log)
  BY DEF Safe, FramesSafe, FrameSafe, Clean
<1>2. StoreSafe'
  BY <1>1, StoreKept DEF SnapshotLands, Safe, StoreSafe
<1> QED
  BY <1>2, OnlyStoreMoves DEF SnapshotLands

LEMMA CommitArrivesIsSafe ==
    ASSUME TypeInv, Safe, NEW p \in lateCommits, CommitArrives(p)
    PROVE  Safe'
<1>1. /\ UNCHANGED <<snapshots, lateSnapshots>> /\ lateCommits' \subseteq lateCommits
      /\ Sound(commits, snapshots, p.commit)
  BY DEF CommitArrives, Safe, StoreSafe
<1>2. StoreSafe' /\ commits \subseteq commits'
  <2>1. CASE SlotFree(Slot(p.commit))
    BY <1>1, <2>1, StoreExtended DEF CommitArrives, Safe
  <2>2. CASE ~SlotFree(Slot(p.commit))
    <3>1. UNCHANGED commits
      BY <2>2 DEF CommitArrives
    <3> QED
      BY <1>1, <3>1, StoreKept DEF Safe, StoreSafe
  <2> QED
    BY <2>1, <2>2
<1> QED
  BY <1>1, <1>2, OnlyStoreMoves DEF CommitArrives

LEMMA SnapshotArrivesIsSafe ==
    ASSUME TypeInv, Safe, NEW s \in lateSnapshots, SnapshotArrives(s)
    PROVE  Safe'
<1>1. StoreSafe'
  BY StoreKept DEF SnapshotArrives, Safe, StoreSafe
<1> QED
  BY <1>1, OnlyStoreMoves DEF SnapshotArrives

\* A crash empties the caches of a host and the frames of its fibers.
LEMMA CrashIsSafe ==
    ASSUME TypeInv, Safe, NEW h \in Hosts, Crash(h)
    PROVE  Safe'
<1> DEFINE lost == {c \in Fibers : HostOf[c] = h /\ pc[c] # "idle"}
<1>1. /\ FrameTypes /\ StoreTypes /\ lost \subseteq Fibers
      /\ UNCHANGED <<commits, snapshots, lateSnapshots, command>>
      /\ lateCommits' = {Abandon(p, lost) : p \in lateCommits}
  BY TypeParts DEF Crash, Frames
<1>2. \A c \in Fibers \ lost :
         /\ known'[c] = known[c] /\ loaded'[c] = loaded[c] /\ snapshot'[c] = snapshot[c]
         /\ pc'[c] = pc[c] /\ result'[c] = result[c] /\ command'[c] = command[c]
  BY DEF Crash
<1>3. \A c \in lost :
         /\ known'[c] = EmptyLoaded /\ loaded'[c] = EmptyLoaded /\ snapshot'[c] = NoLog
         /\ pc'[c] = "idle" /\ result'[c].outcome = "crashed"
  BY DEF Crash
<1>4. \A g \in Hosts :
         /\ verified'[g] = verified[g] \/ verified'[g] = EmptyLoaded
         /\ verifiedSnapshot'[g] = verifiedSnapshot[g] \/ verifiedSnapshot'[g] = NoLog
  BY <1>1 DEF Crash, StoreTypes
<1> HIDE DEF lost
<1>5. Attempts' /\ \A p \in lateCommits' : \E q \in lateCommits : p.commit = q.commit
  BY <1>1, <1>2, OrphansAreSafe DEF Safe
<1>6. StoreSafe'
  BY <1>1, <1>5, StoreKept DEF Safe, StoreSafe
<1>7. CachesSafe'
  <2>1. \A g \in Hosts : \/ verified'[g] = verified[g]
                        \/ Clean(commits', snapshots', verified'[g])
    BY <1>4, EmptyIsClean
  <2>2. \A g \in Hosts : \/ verifiedSnapshot'[g] = verifiedSnapshot[g]
                        \/ verifiedSnapshot'[g] \in snapshots' \cup {NoLog}
    BY <1>4
  <2> QED
    BY <1>1, <2>1, <2>2, CachesKept DEF Safe
<1>8. \A c \in Fibers \ lost : FrameSafe(c)'
  BY <1>1, <1>2, FrameKept DEF Safe, FramesSafe
<1>9. \A c \in lost : FrameSafe(c)'
  BY <1>1, <1>3, EmptyIsClean DEF FrameSafe, Acknowledged
<1> QED
  BY <1>5, <1>6, <1>7, <1>8, <1>9 DEF Safe, FramesSafe

LEMMA StutterIsSafe == TypeInv /\ Safe /\ UNCHANGED vars => Safe'
<1> SUFFICES ASSUME TypeInv, Safe, UNCHANGED vars PROVE Safe'
  OBVIOUS
<1>1. StoreSafe'
  BY QuietStore DEF vars, storeVars, Safe
<1> QED
  BY <1>1, OnlyStoreMoves DEF vars, hostVars, loadVars

-----------------------------------------------------------------------------
(* The theorems.                                                           *)

LEMMA SafeStep == TypeInv /\ Safe /\ [Next]_vars => Safe'
<1> SUFFICES ASSUME TypeInv, Safe, [Next]_vars PROVE Safe'
  OBVIOUS
<1>1. ASSUME NEW c \in Fibers, Load(c) PROVE Safe'
  BY <1>1, ListCommitsIsSafe, ListSnapshotsIsSafe, RecoverIsSafe, ReplayNextIsSafe,
     FinishLoadIsSafe DEF Load
<1>2. ASSUME NEW c \in Fibers, Proceed(c) PROVE Safe'
  BY <1>1, <1>2, ReturnHeadIsSafe, ReturnReceiptIsSafe, PrepareIsSafe, PublishBoundaryIsSafe,
     RefuseIsSafe, CreateIsSafe, IndeterminateIsSafe, ReconcileIsSafe, RetryIsSafe,
     SettleIsSafe DEF Proceed
<1>3. ASSUME NEW c \in Fibers,
             (\E d \in Commands \cup {ReadHead} : Call(c, d)) \/ StoreFails(c) \/ SnapshotLands(c)
      PROVE  Safe'
  BY <1>3, CallIsSafe, StoreFailsIsSafe, SnapshotLandsIsSafe
<1>4. CASE \/ \E h \in Hosts : Crash(h)
           \/ \E p \in lateCommits : CommitArrives(p)
           \/ \E s \in lateSnapshots : SnapshotArrives(s)
  BY <1>4, CrashIsSafe, CommitArrivesIsSafe, SnapshotArrivesIsSafe
<1>5. CASE UNCHANGED vars
  BY <1>5, StutterIsSafe
<1> QED
  BY <1>2, <1>3, <1>4, <1>5 DEF Next

LEMMA SafetyInvariant == Spec => [](TypeInv /\ Safe)
<1>1. Init => TypeInv /\ Safe
  BY InitTypes, InitSafe
<1>2. TypeInv /\ Safe /\ [Next]_vars => (TypeInv /\ Safe)'
  BY TypeStep, SafeStep
<1> QED
  BY <1>1, <1>2, PTL DEF Spec

\* The store holds one history: no slot is written twice, none is skipped, and
\* every record extends the one before it.
THEOREM HistoryIsOne == Spec => []OneHistory
<1>1. Safe => OneHistory
  BY DEF Safe, StoreSafe, Sound, OneHistory
<1> QED
  BY <1>1, SafetyInvariant, PTL

\* A command identity is committed at most once, whatever is retried,
\* submitted twice or arrives late.
THEOREM CommandsCommitOnce == Spec => []ExactlyOnce
<1>1. TypeInv /\ Safe => ExactlyOnce
  BY TypeParts, SoundIsOnce DEF StoreTypes, Safe, StoreSafe, ExactlyOnce
<1> QED
  BY <1>1, SafetyInvariant, PTL

\* An acknowledged command stays committed with its input and receipt.
THEOREM AcknowledgementsHold == Spec => []AcknowledgedIsCommitted
<1>1. Safe => AcknowledgedIsCommitted
  BY DEF Safe, FramesSafe, FrameSafe, Acknowledged, AcknowledgedIsCommitted
<1> QED
  BY <1>1, SafetyInvariant, PTL

\* Only an indeterminate answer or a crash leaves a PUT that may still commit.
THEOREM DefiniteFailuresAreFinal == Spec => []NoAbandonedWrite
<1>1. Safe => NoAbandonedWrite
  BY DEF Safe, Attempts, NoAbandonedWrite
<1> QED
  BY <1>1, SafetyInvariant, PTL

\* Every commit is within SnapshotEvery of a published snapshot before it.
THEOREM RecoveryIsBounded == Spec => []RecoveryBounded
<1>1. Safe => RecoveryBounded
  BY DEF Safe, StoreSafe, Sound, Recoverable, RecoveryBounded
<1> QED
  BY <1>1, SafetyInvariant, PTL

\* Snapshots, published or in flight, and host caches hold committed history.
THEOREM CachesAreCommitted == Spec => []SnapshotsAreCommitted
<1>1. Safe => SnapshotsAreCommitted
  <2> SUFFICES ASSUME Safe PROVE SnapshotsAreCommitted
    OBVIOUS
  <2>1. PrefixOf(commits, NoLog)
    BY DEF PrefixOf, NoLog
  <2> QED
    BY <2>1 DEF Safe, StoreSafe, CachesSafe, Clean, SnapshotsAreCommitted
<1> QED
  BY <1>1, SafetyInvariant, PTL
=============================================================================
