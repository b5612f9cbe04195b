------------------------------ MODULE Journal ------------------------------
(***************************************************************************)
(* The object-store journal that serialises every command of a durability  *)
(* partition: packages/generalist/src/durability/internal/journal.ts with  *)
(* journal-recovery.ts and journal-storage.ts.                             *)
(*                                                                         *)
(* A host process owns one journal object; the fibers of a host share its  *)
(* two caches (`verified` and `verifiedSnapshot`) and nothing else.  Hosts *)
(* share only the object store: immutable commit slots and snapshots, both *)
(* written by conditional creation.  A PUT that failed may have been       *)
(* applied, may be lost, or may still arrive later.                        *)
(*                                                                         *)
(* Data is abstracted as follows.                                          *)
(*  - The reducer is the free one: its state is the history of applied     *)
(*    entries, of which the state of any other reducer is a function, and  *)
(*    the receipt it returns is the number of entries it saw, plus one.    *)
(*  - SHA-256 is injective: the digest of a commit is the history that     *)
(*    ends with it, so one sequence `log` is the head's sequence number,   *)
(*    digest and state and the receipts; sequence "-1" is the empty log.   *)
(*  - A snapshot's key is its content, the log it covers.                  *)
(*  - The verifiedCommits cache is left out: an entry is used only when it *)
(*    equals the bytes just read.                                          *)
(***************************************************************************)
EXTENDS Naturals, Sequences, FiniteSets

CONSTANTS
    Hosts,              \* host processes, each with one journal object
    Fibers,             \* concurrent callers of those journals
    HostOf,             \* the host a fiber runs in
    Ids,                \* command identities
    Inputs,             \* command inputs (their digests)
    Commands,           \* the commands callers may submit
    ReadHead,           \* the call that only loads (head, read, lookupReceipt)
    Size,               \* the bytes of the commit of a command identity
    SnapshotEvery,      \* options.snapshotEvery
    MaxReplayBytes,     \* options.maxReplayBytes
    MaxConflictRetries, \* options.maxConflictRetries
    MaxInFlight         \* bound: failed PUTs that may still arrive

ASSUME ConstantsAssumption ==
    /\ HostOf \in [Fibers -> Hosts]
    /\ Commands \subseteq [id : Ids, input : Inputs]
    /\ ReadHead \notin Commands
    /\ Size \in [Ids -> Nat \ {0}]
    /\ SnapshotEvery \in Nat \ {0}
    /\ MaxReplayBytes \in Nat \ {0}
    /\ MaxConflictRetries \in Nat
    /\ MaxInFlight \in Nat

VARIABLES
    \* the object store and the network in front of it
    commits,            \* the objects under commits/
    snapshots,          \* the objects under snapshots/
    discoverable,       \* whether the discovery marker of the partition exists
    lateCommits,        \* commit PUTs reported failed that may still arrive
    lateSnapshots,      \* snapshot PUTs reported failed that may still arrive
    \* the memory of a host
    verified,           \* newest verified Loaded
    verifiedSnapshot,   \* snapshot last validated or published
    \* the frame of a fiber's call
    pc, command, known, latest, snapshot, loaded, conflicts, result

storeVars == <<commits, snapshots, discoverable, lateCommits, lateSnapshots>>
hostVars == <<verified, verifiedSnapshot>>
loadVars == <<known, latest, snapshot>>
vars == <<commits, snapshots, discoverable, lateCommits, lateSnapshots,
          verified, verifiedSnapshot,
          pc, command, known, latest, snapshot, loaded, conflicts, result>>

-----------------------------------------------------------------------------
(* Stored objects and loaded heads.                                        *)

Entry == [id : Ids, input : Inputs, receipt : Nat]
Log == Seq(Entry)

\* The record of a commit slot: the digest of its parent, and its own entry.
Commit == [parent : Log, entry : Entry]
Slot(x) == Len(x.parent) + 1
Digest(x) == Append(x.parent, x.entry)

Loaded == [log : Log, replayRecords : Nat, replayBytes : Nat,
           snapshotKey : Log]
NoLog == << >>
EmptyLoaded == [log |-> NoLog, replayRecords |-> 0, replayBytes |-> 0,
                snapshotKey |-> NoLog]
FromSnapshot(s) == [log |-> s, replayRecords |-> 0, replayBytes |-> 0,
                    snapshotKey |-> s]

\* append: the next commit applied to a loaded head, and when it may be.
Extends(x, l) ==
    /\ x.parent = l.log
    /\ \A k \in DOMAIN l.log : l.log[k].id # x.entry.id
Advance(l, x) ==
    [log |-> Digest(x), replayRecords |-> l.replayRecords + 1,
     replayBytes |-> l.replayBytes + Size[x.entry.id], snapshotKey |-> l.snapshotKey]

\* Mutant: the receipts of the head are not consulted.
HasReceiptMutant(l, id) == FALSE /\ id \in {l.log[k].id : k \in DOMAIN l.log}

\* ownReceipt: the retained entry of a command identity in a loaded head.
HasReceipt(l, id) == \E k \in DOMAIN l.log : l.log[k].id = id
ReceiptOf(l, id) == l.log[CHOOSE k \in DOMAIN l.log : l.log[k].id = id]
LastEntry(l) == l.log[Len(l.log)]

\* Mutant: the PUT of a commit is not conditional.
SlotFreeMutant(n) == n > 0

SlotFree(n) == \A x \in commits : Slot(x) # n
IsDigest(log) == \E x \in commits : Digest(x) = log

Nobody == "nobody"
LateCommit == [commit : Commit, by : Fibers \cup {Nobody}]

PCs == {"idle", "list", "listSnapshots", "recover", "replay", "loaded",
        "prepared", "created", "reconcile", "found", "retry"}
Failures == {"input-conflict", "rejected", "contention", "limit", "transport",
             "indeterminate", "corruption"}
Outcomes == Failures \cup {"none", "read", "committed", "crashed"}
Result == [outcome : Outcomes, receipt : Nat]
NoResult == [outcome |-> "none", receipt |-> 0]

TypeOK ==
    /\ commits \subseteq Commit
    /\ snapshots \subseteq Log
    /\ discoverable \in BOOLEAN
    /\ lateCommits \subseteq LateCommit
    /\ lateSnapshots \subseteq Log
    /\ verified \in [Hosts -> Loaded]
    /\ verifiedSnapshot \in [Hosts -> Log]
    /\ pc \in [Fibers -> PCs]
    /\ command \in [Fibers -> Commands \cup {ReadHead}]
    /\ known \in [Fibers -> Loaded]
    /\ latest \in [Fibers -> Nat]
    /\ snapshot \in [Fibers -> Log]
    /\ loaded \in [Fibers -> Loaded]
    /\ conflicts \in [Fibers -> Nat]
    /\ result \in [Fibers -> Result]

Init ==
    /\ commits = {} /\ snapshots = {} /\ discoverable = FALSE
    /\ lateCommits = {} /\ lateSnapshots = {}
    /\ verified = [h \in Hosts |-> EmptyLoaded]
    /\ verifiedSnapshot = [h \in Hosts |-> NoLog]
    /\ pc = [c \in Fibers |-> "idle"]
    /\ command = [c \in Fibers |-> ReadHead]
    /\ known = [c \in Fibers |-> EmptyLoaded]
    /\ latest = [c \in Fibers |-> 0]
    /\ snapshot = [c \in Fibers |-> NoLog]
    /\ loaded = [c \in Fibers |-> EmptyLoaded]
    /\ conflicts = [c \in Fibers |-> 0]
    /\ result = [c \in Fibers |-> NoResult]

-----------------------------------------------------------------------------
(* Starting and ending a call.                                             *)

Go(c, where) == pc' = [pc EXCEPT ![c] = where]

\* Every load begins from the host's newest verified head.
BeginLoad(c) ==
    /\ Go(c, "list")
    /\ known' = [known EXCEPT ![c] = verified[HostOf[c]]]
    /\ UNCHANGED <<latest, snapshot>>

Call(c, d) ==
    /\ pc[c] = "idle"
    /\ BeginLoad(c)
    /\ command' = [command EXCEPT ![c] = d]
    /\ result' = [result EXCEPT ![c] = NoResult]
    /\ UNCHANGED <<storeVars, hostVars, loaded, conflicts>>

\* The locals of load are gone when it ends.
EndLoad(c) ==
    /\ known' = [known EXCEPT ![c] = EmptyLoaded]
    /\ latest' = [latest EXCEPT ![c] = 0]
    /\ snapshot' = [snapshot EXCEPT ![c] = NoLog]

\* The call ends: its frame is gone, its answer stays with the caller.
Return(c, outcome, receipt) ==
    /\ Go(c, "idle")
    /\ result' = [result EXCEPT ![c] = [outcome |-> outcome, receipt |-> receipt]]
    /\ EndLoad(c)
    /\ loaded' = [loaded EXCEPT ![c] = EmptyLoaded]
    /\ conflicts' = [conflicts EXCEPT ![c] = 0]
    /\ UNCHANGED command

\* remember: a host keeps the newest of the heads its fibers verified.
Remember(h, l) ==
    verified' = IF Len(l.log) >= Len(verified[h].log)
                THEN [verified EXCEPT ![h] = l] ELSE verified

-----------------------------------------------------------------------------
(* load                                                                    *)

\* listSequences: only the keys after the verified head are listed, and they
\* must be contiguous with it.
ListCommits(c) ==
    /\ pc[c] = "list"
    /\ LET from   == Len(known[c].log)
           listed == {n \in {Slot(x) : x \in commits} : n > from}
       IN \E last \in listed \cup {from} :
             /\ \A n \in listed : n <= last
             /\ IF listed = from + 1 .. last
                THEN /\ Go(c, "listSnapshots")
                     /\ latest' = [latest EXCEPT ![c] = last]
                     /\ UNCHANGED <<command, known, snapshot, loaded, conflicts,
                                    result>>
                ELSE Return(c, "corruption", 0)
    /\ UNCHANGED <<storeVars, hostVars>>

\* latestSnapshot: the listing resumes after the host's verified snapshot; a
\* snapshot beyond the commits listed before is ignored.
SnapshotSeed(c) ==
    LET own == verifiedSnapshot[HostOf[c]]
    IN IF own # NoLog THEN own ELSE known[c].snapshotKey
SnapshotCandidates(c) ==
    LET seed   == SnapshotSeed(c)
        listed == {s \in snapshots : Len(s) >= Len(seed) /\ s # seed}
    IN {s \in listed \cup ({seed} \ {NoLog}) : Len(s) <= latest[c]}

ListSnapshots(c) ==
    /\ pc[c] = "listSnapshots"
    /\ LET found == SnapshotCandidates(c)
       IN \/ /\ found = {}
             /\ Go(c, "recover")
             /\ snapshot' = [snapshot EXCEPT ![c] = NoLog]
             /\ UNCHANGED <<command, known, latest, loaded, conflicts, result>>
          \/ \E s \in found :
                /\ \A t \in found \ {s} : Len(t) < Len(s)
                /\ Go(c, "recover")
                /\ snapshot' = [snapshot EXCEPT ![c] = s]
                /\ UNCHANGED <<command, known, latest, loaded, conflicts, result>>
          \/ /\ \E s, t \in found : s # t /\ Len(s) = Len(t)
             /\ Return(c, "corruption", 0)
    /\ UNCHANGED <<storeVars, hostVars>>

\* dominatedBy: the verified head already covers the snapshot found.
Dominated(c) ==
    /\ snapshot[c] # NoLog
    /\ snapshot[c] # known[c].snapshotKey
    /\ Len(snapshot[c]) <= Len(known[c].log)

\* loadSnapshot and reuseVerified: where the replay starts from.
ReadsSnapshot(c) == snapshot[c] # NoLog /\ ~Dominated(c)
SnapshotBase(c) == IF ReadsSnapshot(c) THEN FromSnapshot(snapshot[c]) ELSE EmptyLoaded
ReusesVerified(c) ==
    /\ Dominated(c) \/ known[c].snapshotKey = snapshot[c]
    /\ Len(known[c].log) >= Len(SnapshotBase(c).log)

Recover(c) ==
    /\ pc[c] = "recover"
    /\ IF \/ ReadsSnapshot(c) /\ ~IsDigest(snapshot[c])
          \/ Len(known[c].log) > latest[c]
          \/ ReusesVerified(c) /\ known[c].log # NoLog /\ ~IsDigest(known[c].log)
       THEN /\ Return(c, "corruption", 0)
            /\ UNCHANGED hostVars
       ELSE /\ Go(c, "replay")
            /\ loaded' = [loaded EXCEPT ![c] = IF ReusesVerified(c) THEN known[c]
                                               ELSE SnapshotBase(c)]
            /\ verifiedSnapshot' =
                 IF ReadsSnapshot(c)
                 THEN [verifiedSnapshot EXCEPT ![HostOf[c]] = snapshot[c]]
                 ELSE verifiedSnapshot
            /\ UNCHANGED <<verified, command, loadVars, conflicts, result>>
    /\ UNCHANGED storeVars

\* The replay runs over the listed tail only: after the base when the tail
\* holds it, from the start of the tail otherwise.
NextListed(c) ==
    IF Len(loaded[c].log) >= Len(known[c].log)
    THEN Len(loaded[c].log) + 1 ELSE Len(known[c].log) + 1
\* Mutant: the last listed commit is not replayed.
ReplayingMutant(c) == pc[c] = "replay" /\ NextListed(c) < latest[c]

Replaying(c) == pc[c] = "replay" /\ NextListed(c) <= latest[c]
ExceedsReplayBytes(c, x) ==
    loaded[c].replayBytes + Size[x.entry.id] > MaxReplayBytes

ReplayNext(c) ==
    /\ Replaying(c)
    /\ \/ /\ loaded[c].replayRecords >= SnapshotEvery
          /\ Return(c, "limit", 0)
       \/ \E x \in commits :
             /\ loaded[c].replayRecords < SnapshotEvery
             /\ Slot(x) = NextListed(c)
             /\ IF ExceedsReplayBytes(c, x) THEN Return(c, "limit", 0)
                ELSE IF ~Extends(x, loaded[c]) THEN Return(c, "corruption", 0)
                ELSE /\ loaded' = [loaded EXCEPT ![c] = Advance(loaded[c], x)]
                     /\ UNCHANGED <<pc, command, loadVars, conflicts, result>>
    /\ UNCHANGED <<storeVars, hostVars>>

FinishLoad(c) ==
    /\ pc[c] = "replay" /\ ~Replaying(c)
    /\ Go(c, "loaded")
    /\ Remember(HostOf[c], loaded[c])
    /\ EndLoad(c)
    /\ UNCHANGED <<storeVars, verifiedSnapshot, command, loaded, conflicts, result>>

\* Any read or listing of a load, and the probe and marker of Prepare, may fail.
StoreFails(c) ==
    /\ pc[c] \in {"list", "listSnapshots", "recover", "replay", "loaded"}
    /\ Return(c, "transport", 0)
    /\ UNCHANGED <<storeVars, hostVars>>

-----------------------------------------------------------------------------
(* commitWithHead                                                          *)

Mine(c) == command[c].id

ReturnHead(c) ==
    /\ pc[c] = "loaded" /\ command[c] = ReadHead
    /\ Return(c, "read", Len(loaded[c].log))
    /\ UNCHANGED <<storeVars, hostVars>>

\* Mutant: a repeated command is answered by evaluating it again.
AnswerMutant(c, l) == Return(c, "committed", Len(l.log) + 1)

\* receiptFor: the retained receipt answers a repeated command, unless the
\* identity committed with another input.
Answer(c, l) ==
    LET prior == ReceiptOf(l, Mine(c))
    IN IF prior.input = command[c].input
       THEN Return(c, "committed", prior.receipt)
       ELSE Return(c, "input-conflict", 0)

ReturnReceipt(c) ==
    /\ pc[c] = "loaded" /\ command[c] # ReadHead
    /\ HasReceipt(loaded[c], Mine(c))
    /\ Answer(c, loaded[c])
    /\ UNCHANGED <<storeVars, hostVars>>

\* The discovery marker is written before the first commit of a partition.
Prepare(c) ==
    /\ pc[c] = "loaded" /\ command[c] # ReadHead
    /\ ~HasReceipt(loaded[c], Mine(c))
    /\ Go(c, "prepared")
    /\ discoverable' = (discoverable \/ loaded[c].log = NoLog)
    /\ UNCHANGED <<commits, snapshots, lateCommits, lateSnapshots, hostVars,
                   command, loadVars, loaded, conflicts, result>>

\* publishSnapshot: the snapshot is stored, or its creation fails and the
\* direct read does not show it.
Publish(c) ==
    /\ snapshots' = snapshots \cup {loaded[c].log}
    /\ verifiedSnapshot' = [verifiedSnapshot EXCEPT ![HostOf[c]] = loaded[c].log]
    /\ UNCHANGED lateSnapshots
InFlight == Cardinality(lateCommits) + Cardinality(lateSnapshots)
PublishFails(c) ==
    /\ \/ UNCHANGED <<snapshots, lateSnapshots>>
       \/ /\ InFlight < MaxInFlight
          /\ lateSnapshots' = lateSnapshots \cup {loaded[c].log}
          /\ UNCHANGED snapshots
    /\ UNCHANGED verifiedSnapshot

\* Mutant: the boundary is published one commit too late.
RecordsDueMutant(c) == loaded[c].replayRecords > SnapshotEvery
\* Mutant: the bytes of the commit about to be written are not counted.
BytesDueMutant(c) ==
    /\ Size[Mine(c)] <= MaxReplayBytes
    /\ loaded[c].replayBytes > MaxReplayBytes

\* A due snapshot is published before the head is extended, or the call fails:
\* one due by records before the command is evaluated, one due by the bytes of
\* the new commit after it.
RecordsDue(c) == loaded[c].replayRecords >= SnapshotEvery
BytesDue(c) ==
    /\ Size[Mine(c)] <= MaxReplayBytes
    /\ loaded[c].replayBytes + Size[Mine(c)] > MaxReplayBytes
BoundaryDue(c) == pc[c] = "prepared" /\ (RecordsDue(c) \/ BytesDue(c))
Published(l) == [log |-> l.log, replayRecords |-> 0, replayBytes |-> 0,
                 snapshotKey |-> l.snapshotKey]
PublishBoundary(c) ==
    /\ BoundaryDue(c)
    /\ \/ /\ Publish(c)
          /\ loaded' = [loaded EXCEPT ![c] = Published(loaded[c])]
          /\ UNCHANGED <<pc, command, loadVars, conflicts, result>>
       \/ /\ PublishFails(c)
          /\ Return(c, "transport", 0)
    /\ UNCHANGED <<commits, discoverable, lateCommits, verified>>

\* The reducer may refuse the command, and so may the size limits.  Evaluation
\* is pure and local, so when it succeeds it is part of Create.
Refuse(c) ==
    /\ pc[c] = "prepared" /\ ~RecordsDue(c)
    /\ Return(c, "rejected", 0)
    /\ UNCHANGED <<storeVars, hostVars>>

\* Mutant: the receipt counts from the sequence number "-1".
TransitionMutant(c) ==
    [parent |-> loaded[c].log,
     entry |-> [id |-> Mine(c), input |-> command[c].input,
                receipt |-> Len(loaded[c].log) - 1]]

Transition(c) ==
    [parent |-> loaded[c].log,
     entry |-> [id |-> Mine(c), input |-> command[c].input,
                receipt |-> Len(loaded[c].log) + 1]]

\* Mutant: a PUT that timed out counts as acknowledged.
CreateMutant(c) ==
    /\ pc[c] = "prepared" /\ ~BoundaryDue(c)
    /\ Size[Mine(c)] <= MaxReplayBytes
    /\ LET x == Transition(c)
       IN /\ SlotFree(Slot(x))
          /\ \/ commits' = commits \cup {x}
             \/ UNCHANGED commits
          /\ loaded' = [loaded EXCEPT ![c] = Advance(loaded[c], x)]
          /\ Go(c, "created")
    /\ UNCHANGED <<snapshots, discoverable, lateCommits, lateSnapshots, hostVars,
                   command, loadVars, conflicts, result>>

\* The conditional PUT of the next slot.  It is acknowledged only when it
\* created the slot; a failure says nothing about whether it did.
Create(c) ==
    /\ pc[c] = "prepared" /\ ~BoundaryDue(c)
    /\ Size[Mine(c)] <= MaxReplayBytes
    /\ LET x == Transition(c)
       IN \/ /\ SlotFree(Slot(x))
             /\ commits' = commits \cup {x}
             /\ loaded' = [loaded EXCEPT ![c] = Advance(loaded[c], x)]
             /\ Go(c, "created")
             /\ UNCHANGED lateCommits
          \/ /\ commits' = IF SlotFree(Slot(x)) THEN commits \cup {x} ELSE commits
             /\ Go(c, "reconcile")
             /\ UNCHANGED <<loaded, lateCommits>>
          \/ /\ SlotFree(Slot(x))
             /\ Go(c, "reconcile")
             /\ \/ /\ InFlight < MaxInFlight
                   /\ lateCommits' = lateCommits \cup {[commit |-> x, by |-> c]}
                \/ UNCHANGED lateCommits
             /\ UNCHANGED <<commits, loaded>>
    /\ UNCHANGED <<snapshots, discoverable, lateSnapshots, hostVars, command,
                   loadVars, conflicts, result>>

\* Nobody waits any more for the PUTs of c (bookkeeping of the model).
Abandon(p, S) == IF p.by \in S THEN [commit |-> p.commit, by |-> Nobody] ELSE p
Orphan(c) ==
    lateCommits' = {Abandon(p, {c}) : p \in lateCommits}

\* Mutant: an absent slot is taken as evidence that the PUT did not commit.
IndeterminateMutant(c) ==
    /\ pc[c] = "reconcile"
    /\ Return(c, "contention", 0)
    /\ UNCHANGED <<storeVars, hostVars>>

\* reconcile without evidence: the direct read failed or found nothing.
Indeterminate(c) ==
    /\ pc[c] = "reconcile"
    /\ Return(c, "indeterminate", 0)
    /\ Orphan(c)
    /\ UNCHANGED <<commits, snapshots, discoverable, lateSnapshots, hostVars>>

\* reconcile with evidence: the record of the attempted slot decides.
Reconcile(c) ==
    /\ pc[c] = "reconcile"
    /\ \E x \in commits :
          /\ Slot(x) = Len(loaded[c].log) + 1
          /\ LET advanced == Advance(loaded[c], x)
             IN IF ~Extends(x, loaded[c])
                THEN /\ Return(c, "corruption", 0)
                     /\ UNCHANGED verified
                ELSE
                /\ Remember(HostOf[c], advanced)
                /\ IF x.entry.id = Mine(c)
                   THEN IF x.entry.input # command[c].input
                        THEN Return(c, "input-conflict", 0)
                        ELSE /\ Go(c, "found")
                             /\ loaded' = [loaded EXCEPT ![c] = advanced]
                             /\ UNCHANGED <<command, loadVars, conflicts, result>>
                   ELSE IF conflicts[c] >= MaxConflictRetries
                   THEN Return(c, "contention", 0)
                   ELSE /\ Go(c, "retry")
                        /\ loaded' = [loaded EXCEPT ![c] = EmptyLoaded]
                        /\ conflicts' = [conflicts EXCEPT ![c] = @ + 1]
                        /\ UNCHANGED <<command, loadVars, result>>
    /\ UNCHANGED <<storeVars, verifiedSnapshot>>

\* Mutant: the retry evaluates the stale head again.
RetryMutant(c) ==
    /\ pc[c] = "retry"
    /\ Go(c, "prepared")
    /\ conflicts' = [conflicts EXCEPT ![c] = 0]
    /\ UNCHANGED <<storeVars, hostVars, command, loadVars, loaded, result>>

Retry(c) ==
    /\ pc[c] = "retry"
    /\ BeginLoad(c)
    /\ UNCHANGED <<storeVars, hostVars, command, loaded, conflicts, result>>

\* snapshotIfDue: publication after a commit is best effort.
SnapshotDue(c) ==
    \/ loaded[c].replayRecords >= SnapshotEvery
    \/ loaded[c].replayBytes >= MaxReplayBytes
Settle(c) ==
    /\ pc[c] \in {"created", "found"}
    /\ IF SnapshotDue(c) THEN Publish(c) \/ PublishFails(c)
       ELSE UNCHANGED <<snapshots, lateSnapshots, verifiedSnapshot>>
    /\ IF pc[c] = "created" THEN Remember(HostOf[c], loaded[c]) ELSE UNCHANGED verified
    /\ Return(c, "committed", LastEntry(loaded[c]).receipt)
    /\ UNCHANGED <<commits, discoverable, lateCommits>>

\* A snapshot PUT is visible to others before its acknowledgement is seen.
SnapshotLands(c) ==
    /\ BoundaryDue(c) \/ (pc[c] \in {"created", "found"} /\ SnapshotDue(c))
    /\ snapshots' = snapshots \cup {loaded[c].log}
    /\ UNCHANGED <<commits, discoverable, lateCommits, lateSnapshots, hostVars,
                   pc, command, loadVars, loaded, conflicts, result>>

-----------------------------------------------------------------------------
(* The environment.                                                        *)

\* A host process dies and is restarted with empty caches.
Crash(h) ==
    LET lost == {c \in Fibers : HostOf[c] = h /\ pc[c] # "idle"}
        Reset(f, v) == [c \in Fibers |-> IF c \in lost THEN v ELSE f[c]]
    IN /\ verified' = [verified EXCEPT ![h] = EmptyLoaded]
       /\ verifiedSnapshot' = [verifiedSnapshot EXCEPT ![h] = NoLog]
       /\ pc' = Reset(pc, "idle")
       /\ result' = Reset(result, [outcome |-> "crashed", receipt |-> 0])
       /\ known' = Reset(known, EmptyLoaded)
       /\ latest' = Reset(latest, 0)
       /\ snapshot' = Reset(snapshot, NoLog)
       /\ loaded' = Reset(loaded, EmptyLoaded)
       /\ conflicts' = Reset(conflicts, 0)
       /\ lateCommits' = {Abandon(p, lost) : p \in lateCommits}
       /\ UNCHANGED <<commits, snapshots, discoverable, lateSnapshots, command>>

\* A PUT reported failed reaches the store after all.
CommitArrives(p) ==
    /\ commits' = IF SlotFree(Slot(p.commit)) THEN commits \cup {p.commit} ELSE commits
    /\ lateCommits' = lateCommits \ {p}
    /\ UNCHANGED <<snapshots, discoverable, lateSnapshots, hostVars, pc, command,
                   loadVars, loaded, conflicts, result>>
SnapshotArrives(s) ==
    /\ snapshots' = snapshots \cup {s}
    /\ lateSnapshots' = lateSnapshots \ {s}
    /\ UNCHANGED <<commits, discoverable, lateCommits, hostVars, pc, command,
                   loadVars, loaded, conflicts, result>>

Load(c) ==
    ListCommits(c) \/ ListSnapshots(c) \/ Recover(c) \/ ReplayNext(c) \/ FinishLoad(c)
Proceed(c) ==
    \/ Load(c) \/ ReturnHead(c) \/ ReturnReceipt(c) \/ Prepare(c)
    \/ PublishBoundary(c) \/ Refuse(c) \/ Create(c)
    \/ Indeterminate(c) \/ Reconcile(c) \/ Retry(c) \/ Settle(c)

Next ==
    \/ \E c \in Fibers :
          \/ \E d \in Commands \cup {ReadHead} : Call(c, d)
          \/ Proceed(c)
          \/ StoreFails(c)
          \/ SnapshotLands(c)
    \/ \E h \in Hosts : Crash(h)
    \/ \E p \in lateCommits : CommitArrives(p)
    \/ \E s \in lateSnapshots : SnapshotArrives(s)

Spec == Init /\ [][Next]_vars
FairSpec == Spec /\ \A c \in Fibers : WF_vars(Proceed(c))

-----------------------------------------------------------------------------
(* Properties.                                                             *)

\* Whether a log is a prefix of the history that a set of commits holds.
PrefixOf(C, log) ==
    \A k \in DOMAIN log : \E x \in C : Slot(x) = k /\ x.entry = log[k]

\* No slot is ever written twice, no slot is skipped and every record extends
\* the one before it: the store holds one history however many hosts, retries
\* and late PUTs write it.
OneHistory ==
    /\ \A x, y \in commits : Slot(x) = Slot(y) => x = y
    /\ \A x \in commits : PrefixOf(commits, x.parent)

\* A command identity occupies at most one slot: neither a retry after an
\* indeterminate answer nor a second host submitting the same command applies
\* it twice.
ExactlyOnce ==
    \A x, y \in commits : x.entry.id = y.entry.id => x = y

\* An acknowledged command is in the history with the input it was submitted
\* with, and the receipt is the retained one, for as long as the caller holds
\* the answer and whatever crashes.
AcknowledgedIsCommitted ==
    \A c \in Fibers : result[c].outcome = "committed" =>
        \E x \in commits : x.entry = [id |-> command[c].id, input |-> command[c].input,
                                     receipt |-> result[c].receipt]

\* A call that ended with a definite failure left no PUT behind that could
\* still commit: only an indeterminate answer or a crash leaves one.
NoAbandonedWrite ==
    \A p \in lateCommits :
        p.by # Nobody /\ SlotFree(Slot(p.commit)) => pc[p.by] = "reconcile"

\* Every completed load covers all commits its listing saw, whatever the
\* host's caches held when it began.
LoadCoversListing ==
    \A c \in Fibers :
        pc[c] = "replay" /\ ~Replaying(c) => Len(loaded[c].log) >= latest[c]

\* A host without caches can always recover: since the newest snapshot there
\* are at most SnapshotEvery commits.
RecoveryBounded ==
    \A x \in commits :
        \E base \in snapshots \cup {NoLog} : Slot(x) <= Len(base) + SnapshotEvery

\* Snapshots and caches, wherever they come from, hold committed history only.
SnapshotsAreCommitted ==
    /\ \A s \in snapshots \cup lateSnapshots : PrefixOf(commits, s)
    /\ \A h \in Hosts :
          /\ PrefixOf(commits, verified[h].log)
          /\ PrefixOf(commits, verifiedSnapshot[h])

\* A load that found a snapshot leaving at most SnapshotEvery listed commits to
\* replay is not refused for exceeding SnapshotEvery records "without a
\* published snapshot" (journal-recovery.ts:246).
RefusedOnlyWithoutSnapshot ==
    \A c \in Fibers :
        /\ Replaying(c)
        /\ loaded[c].replayRecords >= SnapshotEvery
        => \/ snapshot[c] = NoLog
           \/ latest[c] - Len(snapshot[c]) > SnapshotEvery

\* The journal implements the command log: the history is the digest of the
\* newest commit, and the late PUTs for a slot still free are unresolved.
History ==
    IF commits = {} THEN NoLog
    ELSE Digest(CHOOSE x \in commits : \A y \in commits : Slot(y) <= Slot(x))
Unresolved ==
    {[id |-> p.commit.entry.id, input |-> p.commit.entry.input] :
        p \in {q \in lateCommits : SlotFree(Slot(q.commit))}}
Seen(c) ==
    CASE pc[c] \in {"listSnapshots", "recover", "replay"} -> {latest[c]}
      [] pc[c] = "loaded" -> {Len(loaded[c].log)}
      [] OTHER -> {}
Calling == {c \in Fibers : pc[c] # "idle"}
Abstract == INSTANCE CommandLog WITH
    log <- History,
    unresolved <- Unresolved,
    pending <- Calling,
    seen <- [c \in Fibers |-> Seen(c)]
ImplementsCommandLog == Abstract!Spec

\* Every call ends, under the fairness of FairSpec.
EveryCallReturns == \A c \in Fibers : pc[c] # "idle" ~> pc[c] = "idle"
=============================================================================
